---- MODULE Spec2Model ----
(***************************************************************************)
(* A model of the Diode RPC client (src/rpc/client.go).                    *)
(*                                                                         *)
(* Spec        the client's life cycle: callers of CallContext,            *)
(*             CastContext, RespondContext and PortOpen, the call manager, *)
(*             the port pool and Close(), all serialised by the client's   *)
(*             genserver actor.                                            *)
(* SpecNet     start-up and tickets: initialize() with validateNetwork()   *)
(*             (the BlockQuick bootstrap), greet(), CheckTicket(),         *)
(*             SubmitNewTicket(), newTicket() and submitTicket() against a *)
(*             server that answers as it likes.                            *)
(* SpecConnect doConnect(): the first dial and its retries.                *)
(* SpecAcct    verified storage reads (GetAccountValueRaw) and ResolveBNS  *)
(*             as functions of what the server answers.                    *)
(* SpecDial    Server.DialContext(): the in-memory pipe, the goroutine     *)
(*             around connectDeviceAndLoop() and the result channel.       *)
(* SpecPort    waitResponse() and the ConnectedPort a call was issued for. *)
(* SpecFetch   GetBlockHeadersUnsafe2(): one goroutine per block number.   *)
(* SpecStart   Start(): the connect task on the actor, the goroutine that  *)
(*             runs initialize(), and Close().                             *)
(*                                                                         *)
(* The genserver (github.com/dominicletz/genserver) is an external         *)
(* library: srv.Call(fun) runs fun on the actor's goroutine, one at a      *)
(* time, and returns when fun has run; srv.Cast(fun) queues fun and        *)
(* returns at once.  After srv.Shutdown(0) the actor's loop has ended: a   *)
(* task handed to it is never run and a Call never returns.                *)
(***************************************************************************)
EXTENDS Integers, Naturals, Sequences, FiniteSets, TLC

\* ------------------------------------------------------------------ bounds
NumCallers == 2        \* goroutines that issue one RPC operation each
MaxCloses == 2         \* number of Close() calls made on the client
callQueueSize == 2     \* capacity of the call manager (1024 in the source)

windowSize == 3        \* headers in the BlockQuick window (100 in the source)
confirmationSize == 2  \* confirmations behind the peak (6 in the source)
MaxTraffic == 2        \* number of traffic events on the secure channel
MaxResubmit == 2       \* cap of the nesting of submitTicket in itself

MaxRetryTimes == 3     \* largest config.RetryTimes a client is given

MaxRoots == 3          \* longest list of account roots a server sends
MaxElems == 2          \* longest BNS destination array
MaxCallbacks == 3      \* invocations of the connection callback in a dial
NumPorts == 2          \* ConnectedPorts of the client
NumPortCalls == 2      \* calls issued on behalf of ports
MaxFetch == 3          \* block numbers in one GetBlockHeadersUnsafe2
MaxFetchNumber == 2    \* largest of these block numbers

\* ---------------------------------------------------------------- constants
ticketBound == 4194304
maxBNSEntries == 128   \* ResolveBNS: a larger entry count is invalid

Callers == 1..NumCallers
RequestIDs == 1..NumCallers

\* the operations a caller can issue on the client
Ops == {"call", "cast", "respond", "portopen"}

VARIABLES
    \* --- Client and its collaborators (life cycle)
    isClosed,          \* Client.isClosed
    srvShutdown,       \* the genserver's loop has ended (srv.Shutdown)
    globalRequestID,   \* the process-wide request id counter
    cm,                \* the call manager: the set of calls it holds
    pool,              \* refs of the ports of this client held by the DataPool
    closeCount,        \* how often each part of the cleanup of Close() ran
    pc,                \* pc[c]: position of caller c
    op,                \* op[c]: the operation caller c is running
    rid,               \* rid[c]: the id of caller c's call
    res,               \* res[c]: what the operation returned
    after,             \* after[c]: the operation began when isClosed was set
    closeCalls,        \* number of Close() calls whose task has run
    closePc,           \* position of the Close() that runs the cleanup
    noopCloses         \* number of Close() calls returned with doCleanup false

lifeVars == <<isClosed, srvShutdown, globalRequestID, cm, pool, closeCount,
              pc, op, rid, res, after, closeCalls, closePc, noopCloses>>

VARIABLES
    \* --- initialize() and validateNetwork()
    db,                \* the local store: the keys lvbn and lvbh
    bq,                \* Client.bq, the BlockQuick window (Nil: none)
    ipc,               \* position of initialize()
    pass,              \* the pass of validateNetwork() within initialize()
    vpc,               \* position of validateNetwork()
    verr,              \* what validateNetwork() returned
    lvbn,              \* validateNetwork(): the restored anchor number
    blockHeaders,      \* validateNetwork(): the bootstrap headers it checked
    peak,              \* validateNetwork(): the peak the server reported
    rpcs,              \* the RPCs this pass of validateNetwork() has issued
    persisted          \* the block number the last successful pass stored

valVars ==
    <<db, bq, ipc, pass, vpc, verr, lvbn, blockHeaders, peak, rpcs, persisted>>

VARIABLES
    \* --- traffic accounting and tickets
    totalBytes,        \* SSL.totalBytes
    totalConnections,  \* SSL.totalConnections
    counter,           \* SSL.counter, the total bytes at the last ticket
    nTraffic,          \* number of traffic events so far
    tpc,               \* position of the ticket flow
    towner,            \* who runs SubmitNewTicket(): CheckTicket or greet
    checked,           \* CheckTicket(): its local variable checked
    depth,             \* nesting of submitTicket in itself
    lastSent,          \* the ticket submitted last
    resp,              \* submitTicket(): what CallContext returned
    logged,            \* what submitTicket logged in this ticket flow
    terr               \* what the ticket flow returned

tickVars == <<totalBytes, totalConnections, counter, nTraffic, tpc, towner,
              checked, depth, lastSent, resp, logged, terr>>

netVars == <<valVars, tickVars>>

VARIABLES
    \* --- doConnect()
    RetryTimes,        \* config.RetryTimes
    EnableKeepAlive,   \* config.EnableKeepAlive
    cpc,               \* position of doConnect()
    iRetry,            \* doConnect(): the loop counter i
    isOk,              \* doConnect(): its local variable isOk
    connErr,           \* doConnect(): its result err
    dials              \* the outcomes of the doDial() calls made so far

connVars ==
    <<RetryTimes, EnableKeepAlive, cpc, iRetry, isOk, connErr, dials>>

VARIABLES
    \* --- verified storage reads, BNS resolution and the allowlist
    req,               \* the call made and what the server answers to it
    ret                \* what the call returned

acctVars == <<req, ret>>

VARIABLES
    \* --- Server.DialContext() and its goroutine
    dialPc,            \* position of DialContext()
    loopPc,            \* position of its goroutine
    retChan,           \* the result channel retChan
    callbacks,         \* how often the connection callback was invoked
    portAnswer,        \* the error the portopen call came back with
    loopErr,           \* what connectDeviceAndLoop() returned
    dialErr,           \* the error DialContext() returned
    connHTTP,          \* the front-end's end of the in-memory pipe
    connDiode          \* the device's end of the in-memory pipe

dialVars == <<dialPc, loopPc, retChan, callbacks, portAnswer, loopErr,
              dialErr, connHTTP, connDiode>>

VARIABLES
    \* --- waitResponse() and the ports calls are issued for
    ports,             \* each ConnectedPort: its sendErr and closed flag
    pcalls,            \* each call: its sender, its position, its result
    hostServes         \* the actor still serves Host()

portVars == <<ports, pcalls, hostServes>>

VARIABLES
    \* --- GetBlockHeadersUnsafe2() and its goroutines
    blockNumbers,      \* the argument
    fetches,           \* each goroutine: running, failed or its header
    responses,         \* the map responses, block number to header
    headersCount,      \* the counter headersCount
    fetchRet           \* what GetBlockHeadersUnsafe2 returned

fetchVars == <<blockNumbers, fetches, responses, headersCount, fetchRet>>

VARIABLES
    \* --- Start(): the connect task and the initialization goroutine
    connectPc,         \* the task Start() casts to the actor
    initPc,            \* position of the goroutine that runs initialize()
    channel,           \* doConnect has set up the secure channel client.s
    sendCallPtr,       \* client.cm.SendCallPtr is installed
    insertedEarly      \* a call was inserted before channel and hook

startVars == <<connectPc, initPc, channel, sendCallPtr, insertedEarly>>

auxVars ==
    <<connVars, acctVars, dialVars, portVars, fetchVars, startVars>>

\* what the actions of the life cycle leave alone, and those of start-up
offLife == <<netVars, auxVars>>
offNet == <<lifeVars, auxVars>>

vars == <<lifeVars, netVars, auxVars>>

\* -------------------------------------------------------------- the actor
\* client.call(fun) / srv.Call(fun): the actor serves tasks until Shutdown
ActorServes == ~srvShutdown

\* the call caller c built in CastContext / RespondContext; sent is set
\* when the call manager has written it to the secure channel
CallOf(c, s) == [id |-> rid[c], owner |-> c, kind |-> op[c], sent |-> s]

\* CallContext and PortOpen wait for the response, CastContext and
\* RespondContext return the call
Waits(o) == o \in {"call", "portopen"}

\* ------------------------------------------------------------ callers
\* getRequestID: atomic.AddUint64(&globalRequestID, 1)
getRequestID == globalRequestID + 1

\* CastContext / CallContext / PortOpen draw a fresh id and build the call;
\* RespondContext builds it under the request id the server chose.
Begin(c, o) ==
    /\ pc[c] = "idle"
    /\ IF o = "respond"
       THEN /\ \E id \in RequestIDs : rid' = [rid EXCEPT ![c] = id]
            /\ UNCHANGED globalRequestID
       ELSE /\ globalRequestID' = getRequestID
            /\ rid' = [rid EXCEPT ![c] = getRequestID]
    /\ op' = [op EXCEPT ![c] = o]
    /\ pc' = [pc EXCEPT ![c] = "insert"]
    /\ after' = [after EXCEPT ![c] = isClosed]
    /\ UNCHANGED <<isClosed, srvShutdown, cm, pool, closeCount, res,
                   closeCalls, closePc, noopCloses>>

\* callManager.Insert: fails when the queue is at capacity
InsertFull == Cardinality(cm) >= callQueueSize

\* callManager.Insert(call) and what CastContext / RespondContext return
Insert(c) ==
    IF InsertFull
    THEN /\ res' = [res EXCEPT ![c] = "errQueueFull"]
         /\ pc' = [pc EXCEPT ![c] = "done"]
         /\ UNCHANGED cm
    ELSE /\ cm' = cm \cup {CallOf(c, FALSE)}
         /\ pc' = [pc EXCEPT ![c] = IF Waits(op[c]) THEN "wait" ELSE "done"]
         /\ res' = [res EXCEPT ![c] = IF Waits(op[c]) THEN "none" ELSE "ok"]

\* insertCall gone wrong: the isClosed test is missing
InsertCallUnchecked(c) ==
    /\ pc[c] = "insert"
    /\ ActorServes
    /\ Insert(c)
    /\ UNCHANGED <<isClosed, srvShutdown, globalRequestID, pool, closeCount,
                   op, rid, after, closeCalls, closePc,
                   noopCloses>>

\* insertCall: inside client.call, errClientClosed when closed, else Insert
InsertCall(c) ==
    /\ pc[c] = "insert"
    /\ ActorServes
    /\ IF isClosed
       THEN /\ res' = [res EXCEPT ![c] = "errClientClosed"]
            /\ pc' = [pc EXCEPT ![c] = "done"]
            /\ UNCHANGED cm
       ELSE Insert(c)
    /\ UNCHANGED <<isClosed, srvShutdown, globalRequestID, pool, closeCount,
                   op, rid, after, closeCalls, closePc,
                   noopCloses>>

\* the call manager writes a queued call to the secure channel; a call
\* without a response channel (RespondContext) is done once it is written
SendCall(call) ==
    /\ call \in cm
    /\ ~call.sent
    /\ cm' = IF call.kind = "respond"
             THEN cm \ {call}
             ELSE (cm \ {call}) \cup {[call EXCEPT !.sent = TRUE]}
    /\ UNCHANGED <<isClosed, srvShutdown, globalRequestID, pool, closeCount,
                   pc, op, rid, res, after, closeCalls, closePc,
                   noopCloses>>

\* waitResponse, a value arrives on call.response: a response or an
\* edge.Error; the deferred srv.Cast(RemoveCallByID) is queued
Deliver(c, r) ==
    /\ pc[c] = "wait"
    /\ CallOf(c, TRUE) \in cm
    /\ res' = [res EXCEPT ![c] = r]
    /\ pc' = [pc EXCEPT ![c] =
                IF op[c] = "portopen" /\ r = "response" THEN "key" ELSE "done"]
    /\ UNCHANGED <<isClosed, srvShutdown, globalRequestID, cm, pool,
                   closeCount, op, rid, after, closeCalls, closePc,
                   noopCloses>>

\* the response to a fire-and-forget call is routed to nobody and dropped
DeliverCast(call) ==
    /\ call \in cm
    /\ call.kind = "cast"
    /\ call.sent
    /\ cm' = cm \ {call}
    /\ UNCHANGED <<isClosed, srvShutdown, globalRequestID, pool, closeCount,
                   pc, op, rid, res, after, closeCalls, closePc,
                   noopCloses>>

\* waitResponse, call.response was closed: err = CancelledError{client.Host()}
\* and Host() is a client.call
HostCall(c) ==
    /\ pc[c] = "host"
    /\ ActorServes
    /\ res' = [res EXCEPT ![c] = "cancelled"]
    /\ pc' = [pc EXCEPT ![c] = "done"]
    /\ UNCHANGED <<isClosed, srvShutdown, globalRequestID, cm, pool,
                   closeCount, op, rid, after, closeCalls, closePc,
                   noopCloses>>

\* waitResponse has returned and its deferred srv.Cast is queued
RemovePending(c) ==
    /\ Waits(op[c])
    /\ pc[c] \in {"key", "setport", "done"}
    /\ res[c] \in {"response", "rpcError", "cancelled"}

\* the task queued by waitResponse: client.cm.RemoveCallByID(call.id)
RemoveCallByID(c) ==
    /\ RemovePending(c)
    /\ ActorServes
    /\ \E call \in cm : call.id = rid[c]
    /\ cm' = {call \in cm : call.id # rid[c]}
    /\ UNCHANGED <<isClosed, srvShutdown, globalRequestID, pool, closeCount,
                   pc, op, rid, res, after, closeCalls, closePc,
                   noopCloses>>

\* GetDeviceKey(ref): GetServerID(), a client.call
GetDeviceKey(c) ==
    /\ pc[c] = "key"
    /\ ActorServes
    /\ pc' = [pc EXCEPT ![c] = "setport"]
    /\ UNCHANGED <<isClosed, srvShutdown, globalRequestID, cm, pool,
                   closeCount, op, rid, res, after, closeCalls, closePc,
                   noopCloses>>

\* the opened port is inserted in the pool under its reference
SetPort(c) ==
    /\ pc[c] = "setport"
    /\ pool' = pool \cup {rid[c]}
    /\ pc' = [pc EXCEPT ![c] = "done"]
    /\ UNCHANGED <<isClosed, srvShutdown, globalRequestID, cm, closeCount,
                   op, rid, res, after, closeCalls, closePc,
                   noopCloses>>

\* ---------------------------------------------------------------- Close
\* callManager.RemoveCalls: every call is removed and its response channel
\* closed, which wakes the caller blocked in waitResponse
RemoveCalls ==
    /\ cm' = {}
    /\ pc' = [c \in Callers |->
                IF pc[c] = "wait" /\ (\E s \in BOOLEAN : CallOf(c, s) \in cm)
                THEN "host" ELSE pc[c]]

\* the cleanup Close() runs on the actor the first time
CloseCleanup ==
    /\ isClosed' = TRUE
    /\ RemoveCalls
    /\ closeCount' = [closeCount EXCEPT !["cancel"] = @ + 1,
                                        !["ticker"] = @ + 1,
                                        !["onClose"] = @ + 1,
                                        !["channel"] = @ + 1]

\* Close() gone wrong: the isClosed test is missing
CloseTaskUnchecked ==
    /\ closeCalls < MaxCloses
    /\ ActorServes
    /\ closeCalls' = closeCalls + 1
    /\ CloseCleanup
    /\ closePc' = "closePorts"
    /\ UNCHANGED <<srvShutdown, globalRequestID, pool, op, rid, res, after,
                   noopCloses>>

\* Close(), the task run by client.call: a Close() that finds the client
\* closed sets doCleanup to false and returns
CloseTask ==
    /\ closeCalls < MaxCloses
    /\ ActorServes
    /\ closeCalls' = closeCalls + 1
    /\ IF isClosed
       THEN /\ noopCloses' = noopCloses + 1
            /\ UNCHANGED <<isClosed, cm, pc, closeCount, closePc>>
       ELSE /\ CloseCleanup
            /\ closePc' = "closePorts"
            /\ UNCHANGED noopCloses
    /\ UNCHANGED <<srvShutdown, globalRequestID, pool, op, rid, res, after>>

\* Close(), doCleanup: client.pool.ClosePorts(client)
ClosePorts ==
    /\ closePc = "closePorts"
    /\ pool' = {}
    /\ closeCount' = [closeCount EXCEPT !["ports"] = @ + 1]
    /\ closePc' = "shutdown"
    /\ UNCHANGED <<isClosed, srvShutdown, globalRequestID, cm, pc, op, rid,
                   res, after, closeCalls, noopCloses>>

\* Close(), doCleanup: client.srv.Shutdown(0), after which Close() returns
Shutdown ==
    /\ closePc = "shutdown"
    /\ srvShutdown' = TRUE
    /\ closePc' = "returned"
    /\ UNCHANGED <<isClosed, globalRequestID, cm, pool, closeCount, pc, op,
                   rid, res, after, closeCalls, noopCloses>>

\* ------------------------------------------------------- block headers
\* uint64 arithmetic, scaled to 8 bits: the result wraps around
Wrap(x) == x % 256

\* the highest block number the server is asked for
MaxBlock == windowSize + confirmationSize + 2
\* the longest answer to getblockquick2
MaxBatch == confirmationSize + 1

\* The headers the server can send.  For each number there is the header of
\* the canonical chain ("main"), a header on the same parent whose miner
\* signature does not verify ("nosig"), and a validly signed header built on
\* the "nosig" header below it ("orphan").
Variants == {"main", "nosig", "orphan"}
Header(n, v) == [number |-> n, variant |-> v]

VariantIndex(v) == CASE v = "main" -> 1 [] v = "nosig" -> 2 [] v = "orphan" -> 3

\* BlockHeader.Hash(): a commitment to the whole header, distinct headers
\* have distinct hashes; 0 is the hash of no header
Hash(h) == h.number * 3 + VariantIndex(h.variant)

\* BlockHeader.Parent(): the hash of the header this one is built on
Parent(h) ==
    IF h.number = 0 THEN 0
    ELSE IF h.variant = "orphan" THEN Hash(Header(h.number - 1, "nosig"))
    ELSE Hash(Header(h.number - 1, "main"))

\* BlockHeader.ValidateSig(): the miner signature verifies
ValidateSig(h) == h.variant # "nosig"

\* BlockHeader.Miner(): two miners take turns on the canonical chain, the
\* other headers come from a third
Miner(h) == IF h.variant = "main" THEN h.number % 2 ELSE 2

\* ------------------------------------------------------ BlockQuick window
\* no window: Client.bq == nil
Nil == [blocks |-> <<>>, pending |-> <<>>]

\* blockquick.New(headers, windowSize)
New(headers) == [blocks |-> headers, pending |-> <<>>]

LastHeader(win) == win.blocks[Len(win.blocks)]

\* Window.Last(): number and hash of the highest accepted header
Last(win) == <<LastHeader(win).number, Hash(LastHeader(win))>>

\* the weight of miner m: the headers of the window m mined
Weight(win, m) ==
    Cardinality({i \in 1..Len(win.blocks) : Miner(win.blocks[i]) = m})

\* the weight of the distinct miners of the pending headers
Score(win) ==
    LET miners == {Miner(win.pending[i]) : i \in 1..Len(win.pending)}
        W(m) == IF m \in miners THEN Weight(win, m) ELSE 0
    IN  W(0) + W(1) + W(2)

\* the window slides over every pending header the miners' weight covers
RECURSIVE Confirm(_)
Confirm(win) ==
    IF win.pending = <<>> \/ 2 * Score(win) <= windowSize
    THEN win
    ELSE Confirm([blocks |-> Append(Tail(win.blocks), Head(win.pending)),
                  pending |-> Tail(win.pending)])

\* the header a new one has to be built on
TailHeader(win) ==
    IF win.pending = <<>> THEN LastHeader(win)
    ELSE win.pending[Len(win.pending)]

\* Window.AddBlock(h, true): the error and the window after it
AddBlock(win, h) ==
    IF Parent(h) # Hash(TailHeader(win)) THEN [err |-> TRUE, win |-> win]
    ELSE IF ~ValidateSig(h) THEN [err |-> TRUE, win |-> win]
    ELSE [err |-> FALSE,
          win |-> Confirm([win EXCEPT !.pending = Append(@, h)])]

\* ------------------------------------------------------- the local store
NoAnchor == [hasN |-> FALSE, n |-> 0, hasH |-> FALSE, h |-> 0]
Anchor(n, h) == [hasN |-> TRUE, n |-> n, hasH |-> TRUE, h |-> h]

\* the built-in anchor used when the store holds none
DefaultAnchor == <<windowSize, Hash(Header(windowSize, "main"))>>

\* restoreLastValid()
restoreLastValid ==
    IF db.hasN /\ db.hasH THEN <<db.n, db.h>> ELSE DefaultAnchor

\* what the store can hold when the client starts: nothing, or the number
\* and hash of a header (any header: the store is a file), below, at and
\* above the built-in anchor
Anchors ==
    {NoAnchor} \cup
    {Anchor(n, Hash(Header(n, v))) :
        n \in {windowSize - 2, windowSize}, v \in {"main", "nosig"}} \cup
    {Anchor(windowSize + 1, Hash(Header(windowSize + 1, "main")))}

\* storeLastValid(): persists Last() of the client's window
storeLastValid(win) == Anchor(Last(win)[1], Last(win)[2])

\* ------------------------------------------------------ validateNetwork
\* validateNetwork, "Checking chain of previous blocks": for i from
\* windowSize-2 down to 0 (here windowSize-1 down to 1) header i must hash to
\* the parent of header i+1 and carry a valid signature
BootstrapError(headers) ==
    LET bad(i) == \/ Hash(headers[i]) # Parent(headers[i + 1])
                  \/ ~ValidateSig(headers[i])
        fails == {i \in 1..(windowSize - 1) : bad(i)}
        first == CHOOSE i \in fails : \A j \in fails : j <= i
    IN  IF fails = {} THEN "nil"
        ELSE IF Hash(headers[first]) # Parent(headers[first + 1])
        THEN "chain" ELSE "sig"

\* validateNetwork() returns err
ValidateReturn(err) ==
    /\ verr' = err
    /\ vpc' = "returned"

\* DelAnchor gone wrong: nothing is deleted
DelNothing(d) == d

\* db.DB.Del(lvbnKey): the stored block number goes, the stored hash stays
DelAnchor(d) == [d EXCEPT !.hasN = FALSE, !.n = 0]

\* The error of a CallContext: nil, or the RPC error made of the server's
\* error response, whose text is the message the server chose.  "rpc" is
\* one with any other message, "rpcReference" one whose message contains
\* "sent reference block does not match".
RPCErrors == {"rpc", "rpcReference"}

\* the outcomes of a CallContext
CallErrors == {"nil"} \cup RPCErrors

\* strings.Contains(err.Error(), "sent reference block does not match"),
\* true of validateNetwork()'s own reference error and of every error
\* whose text holds these words
ContainsReference(err) == err \in {"anchor", "rpcReference"}

\* validateNetwork() up to "Starting to fetch new blocks": restoreLastValid,
\* GetBlockHeadersUnsafe(blockNumMin, lvbn) answered by the server with ok
\* and the headers of variants vs, the reference check and the chain check
ValidateBootstrap(ok, vs) ==
    LET lv == restoreLastValid
        blockNumMin == Wrap(lv[1] - windowSize + 1)
        headers == [i \in 1..windowSize |-> Header(blockNumMin + i - 1, vs[i])]
    IN
    /\ ipc = "validate"
    /\ vpc = "start"
    /\ lvbn' = lv[1]
    /\ IF blockNumMin > lv[1]
       THEN /\ ValidateReturn("fetch")
            /\ rpcs' = {}
            /\ UNCHANGED <<db, blockHeaders>>
       ELSE /\ rpcs' = {"getblockheader2"}
            /\ IF ~ok
               THEN /\ ValidateReturn("fetch")
                    /\ UNCHANGED <<db, blockHeaders>>
               ELSE IF Len(headers) # windowSize
               THEN /\ ValidateReturn("count")
                    /\ UNCHANGED <<db, blockHeaders>>
               ELSE IF Hash(headers[windowSize]) # lv[2]
               THEN /\ db' = DelAnchor(db)
                    /\ ValidateReturn("anchor")
                    /\ UNCHANGED blockHeaders
               ELSE IF BootstrapError(headers) # "nil"
               THEN /\ ValidateReturn(BootstrapError(headers))
                    /\ UNCHANGED <<db, blockHeaders>>
               ELSE /\ blockHeaders' = headers
                    /\ vpc' = "peak"
                    /\ UNCHANGED <<db, verr>>
    /\ UNCHANGED <<bq, ipc, pass, peak, persisted, tickVars>>

\* validateNetwork(): peak, err := client.GetBlockPeak(), the call
\* returning error e or the peak p
GetBlockPeak(e, p) ==
    /\ ipc = "validate"
    /\ vpc = "peak"
    /\ rpcs' = rpcs \cup {"getblockpeak"}
    /\ IF e = "nil"
       THEN /\ peak' = p
            /\ vpc' = "blocks"
            /\ UNCHANGED verr
       ELSE /\ ValidateReturn(e)
            /\ UNCHANGED peak
    /\ UNCHANGED <<db, bq, ipc, pass, lvbn, blockHeaders, persisted, tickVars>>

\* validateNetwork(), the loop over the blocks of the batch: blocks from
\* index i on are added until one lies above blockNumMax
RECURSIVE AddBlocks(_, _, _, _)
AddBlocks(win, blocks, i, blockNumMax) ==
    IF i > Len(blocks) \/ blocks[i].number > blockNumMax
    THEN [err |-> FALSE, win |-> win]
    ELSE LET r == AddBlock(win, blocks[i])
         IN  IF r.err THEN r ELSE AddBlocks(r.win, blocks, i + 1, blockNumMax)

\* InstallWindow gone wrong: the window is installed, Last() not persisted
InstallWindowOnly(win) ==
    /\ bq' = win
    /\ db' = db
    /\ persisted' = persisted

\* InstallWindow gone wrong: the last bootstrap header is persisted, not
\* the Last() of the new window
InstallWindowStoreAnchor(win) ==
    /\ bq' = win
    /\ db' = storeLastValid(New(blockHeaders))
    /\ persisted' = lvbn

\* validateNetwork(), its end: client.bq = win and storeLastValid()
InstallWindow(win) ==
    /\ bq' = win
    /\ db' = storeLastValid(win)
    /\ persisted' = Last(win)[1]

\* validateNetwork() from GetBlockquick on: the call returns error e or a
\* batch of the headers after lvbn, of variants vs; the blocks are added,
\* progress is checked, the window installed and Last() persisted
ValidateBlocks(e, vs) ==
    LET blockNumMax == Wrap(peak - confirmationSize + 1)
        blocks == [i \in DOMAIN vs |-> Header(lvbn + i, vs[i])]
        r == AddBlocks(New(blockHeaders), blocks, 1, blockNumMax)
        newlvbn == Last(r.win)[1]
    IN
    /\ ipc = "validate"
    /\ vpc = "blocks"
    /\ rpcs' = rpcs \cup {"getblockquick2"}
    /\ IF e # "nil"
       THEN /\ ValidateReturn(e)
            /\ UNCHANGED <<db, bq, persisted>>
       ELSE IF r.err
       THEN /\ ValidateReturn("addblock")
            /\ UNCHANGED <<db, bq, persisted>>
       ELSE IF newlvbn = lvbn /\ Wrap(peak - windowSize) > lvbn
       THEN /\ ValidateReturn("noprogress")
            /\ UNCHANGED <<db, bq, persisted>>
       ELSE /\ InstallWindow(r.win)
            /\ ValidateReturn("nil")
    /\ UNCHANGED <<ipc, pass, lvbn, blockHeaders, peak, tickVars>>

\* ------------------------------------------------------------ initialize
\* initialize(): validateNetwork() has returned and its locals are gone; a
\* second pass follows the first when the text of its error holds the
\* words of the reference error
AfterValidate ==
    /\ ipc = "validate"
    /\ vpc = "returned"
    /\ IF pass = 1 /\ verr # "nil" /\ ContainsReference(verr)
       THEN /\ pass' = 2
            /\ vpc' = "start"
            /\ UNCHANGED ipc
       ELSE /\ ipc' = IF verr = "nil" THEN "serverid" ELSE "failed"
            /\ UNCHANGED <<pass, vpc>>
    /\ lvbn' = 0
    /\ blockHeaders' = <<>>
    /\ peak' = 0
    /\ rpcs' = {}
    /\ UNCHANGED <<db, bq, verr, persisted, tickVars>>

\* initialize(): serverID, err = client.s.GetServerID()
InitServerID(ok) ==
    /\ ipc = "serverid"
    /\ ipc' = IF ok THEN "greet" ELSE "failed"
    /\ UNCHANGED <<db, bq, pass, vpc, verr, lvbn, blockHeaders, peak, rpcs,
                   persisted,
                   tickVars>>

\* the state of validation before initialize() runs, the store holding d
InitVal(d) ==
    /\ db = d
    /\ bq = Nil
    /\ ipc = "validate"
    /\ pass = 1
    /\ vpc = "start"
    /\ verr = "nil"
    /\ lvbn = 0
    /\ blockHeaders = <<>>
    /\ peak = 0
    /\ rpcs = {}
    /\ persisted = IF d.hasN THEN d.n ELSE 0

\* ---------------------------------------------------------------- tickets
\* no ticket
NoTicket ==
    [built |-> FALSE, bn |-> 0, bh |-> 0, bytes |-> 0, conns |-> 0,
     win |-> Nil]

\* The previous ticket of a TicketTooLow reply.  localAddr is the address
\* as received, plain or hex encoded; sig tells which form of the address
\* the device signed, "forged" when the signature is not the device's.
LastTickets ==
    [bytes : {0}, conns : {0},
     localAddr : {"plain", "hex"}, sig : {"plain", "hex", "forged"}]

NoLastTicket ==
    [bytes |-> 0, conns |-> 0, localAddr |-> "plain", sig |-> "plain"]

\* no reply
NoReply == [kind |-> "none", last |-> NoLastTicket]

\* what CallContext("ticket", ...) can return: an error, a response that
\* is no DeviceTicket, or a DeviceTicket with its Err
Replies ==
    {[kind |-> k, last |-> NoLastTicket] :
        k \in {"error", "other", "ok", "tooOld"}}
    \cup {[kind |-> "tooLow", last |-> t] : t \in LastTickets}

\* DeviceTicket.ValidateDeviceSig(client.config.ClientAddr)
ValidateDeviceSig(t) == t.sig = t.localAddr

\* util.DecodeForce(): decodes a hex encoded value, leaves any other as it is
DecodeForce(a) == IF a = "hex" THEN "plain" ELSE a

\* Legitimate gone wrong: every previous ticket passes
LegitimateAlways(t) == TRUE

\* submitTicket: the previous ticket verifies, as received or after the
\* force-decode of its local address
Legitimate(t) ==
    LET decoded == IF ~ValidateDeviceSig(t)
                   THEN [t EXCEPT !.localAddr = DecodeForce(@)]
                   ELSE t
    IN  ValidateDeviceSig(decoded)

\* Exceeds gone wrong: the comparison is not strict
ExceedsOrEqual(total, cnt) == total >= cnt + ticketBound

\* CheckTicket: client.s.TotalBytes() > counter+ticketBound
Exceeds(total, cnt) == total > cnt + ticketBound

\* client.LastValid(): Last() of the client's window, the stored anchor
\* while there is none
LastValid == IF bq = Nil THEN restoreLastValid ELSE Last(bq)

\* TicketReturn gone wrong: initialize() connects whatever greet() returns
TicketReturnConnects(err) ==
    /\ terr' = err
    /\ tpc' = "idle"
    /\ towner' = "none"
    /\ depth' = 0
    /\ ipc' = IF towner # "greet" THEN ipc ELSE "connected"

\* the ticket flow returns err to its caller; greet() hands it to
\* initialize(), which connects or fails
TicketReturn(err) ==
    /\ terr' = err
    /\ tpc' = "idle"
    /\ towner' = "none"
    /\ depth' = 0
    /\ ipc' = IF towner # "greet" THEN ipc
              ELSE IF err = "nil" THEN "connected" ELSE "failed"

\* The connection carries traffic from the start of initialize() on.  The
\* model lets it flow and lets CheckTicket() run before a pass of
\* validateNetwork() and after validation, not in the middle of a pass.
Online == ipc \in {"ticket", "connected"} \/ (ipc = "validate" /\ vpc = "start")

\* bytes move over the connection: SSL adds n to its total
Traffic(n) ==
    /\ Online
    /\ nTraffic < MaxTraffic
    /\ nTraffic' = nTraffic + 1
    /\ totalBytes' = totalBytes + n
    /\ UNCHANGED <<valVars, totalConnections, counter, tpc, towner, checked,
                   depth, lastSent, resp, logged, terr>>

\* a connection is opened through the server: SSL counts it
NewConnection ==
    /\ Online
    /\ nTraffic < MaxTraffic
    /\ nTraffic' = nTraffic + 1
    /\ totalConnections' = totalConnections + 1
    /\ UNCHANGED <<valVars, totalBytes, counter, tpc, towner, checked,
                   depth, lastSent, resp, logged, terr>>

\* CheckTicket(): the comparison, run on the actor
CheckTicket ==
    /\ tpc = "idle"
    /\ ipc # "ticket"
    /\ Online
    /\ ActorServes
    /\ checked' = Exceeds(totalBytes, counter)
    /\ tpc' = "checked"
    /\ UNCHANGED <<valVars, totalBytes, totalConnections, counter, nTraffic,
                   towner, depth, lastSent, resp, logged, terr>>

\* CheckTicket(): if checked { err = client.SubmitNewTicket() }
CheckTicketSubmit ==
    /\ tpc = "checked"
    /\ checked' = FALSE
    /\ IF checked
       THEN /\ tpc' = "submitNew"
            /\ towner' = "check"
            /\ logged' = "none"
            /\ UNCHANGED <<terr, depth, ipc>>
       ELSE /\ TicketReturn("nil")
            /\ UNCHANGED logged
    /\ UNCHANGED <<db, bq, pass, vpc, verr, lvbn, blockHeaders, peak, rpcs,
                   persisted,
                   totalBytes, totalConnections, counter, nTraffic,
                   lastSent, resp>>

\* greet(): the hello cast, sent or not, then SubmitNewTicket()
Greet(ok) ==
    /\ ipc = "greet"
    /\ tpc = "idle"
    /\ IF ok
       THEN /\ ipc' = "ticket"
            /\ tpc' = "submitNew"
            /\ towner' = "greet"
            /\ logged' = "none"
       ELSE /\ ipc' = "failed"
            /\ UNCHANGED <<tpc, towner, logged>>
    /\ UNCHANGED <<db, bq, pass, vpc, verr, lvbn, blockHeaders, peak, rpcs,
                   persisted,
                   totalBytes, totalConnections, counter, nTraffic, checked,
                   depth, lastSent, resp, terr>>

\* SubmitNewTicket gone wrong: the window is not looked at
SubmitNewTicketNoWindowCheck(ok) ==
    /\ tpc = "submitNew"
    /\ IF ~ok
       THEN /\ TicketReturn("serverid")
            /\ UNCHANGED counter
       ELSE /\ counter' = totalBytes
            /\ tpc' = "build"
            /\ UNCHANGED <<terr, towner, depth, ipc>>
    /\ UNCHANGED <<db, bq, pass, vpc, verr, lvbn, blockHeaders, peak, rpcs,
                   persisted,
                   totalBytes, totalConnections, nTraffic, checked,
                   lastSent, resp, logged>>

\* SubmitNewTicket() up to the counter update of newTicket(): nothing
\* without a window; GetServerID answers ok or fails; UpdateCounter
SubmitNewTicket(ok) ==
    /\ tpc = "submitNew"
    /\ IF bq = Nil
       THEN /\ TicketReturn("nil")
            /\ UNCHANGED counter
       ELSE IF ~ok
       THEN /\ TicketReturn("serverid")
            /\ UNCHANGED counter
       ELSE /\ counter' = totalBytes
            /\ tpc' = "build"
            /\ UNCHANGED <<terr, towner, depth, ipc>>
    /\ UNCHANGED <<db, bq, pass, vpc, verr, lvbn, blockHeaders, peak, rpcs,
                   persisted,
                   totalBytes, totalConnections, nTraffic, checked,
                   lastSent, resp, logged>>

\* newTicket() from LastValid() on: the ticket it fills in
newTicket ==
    [built |-> TRUE, bn |-> LastValid[1], bh |-> LastValid[2],
     bytes |-> totalBytes, conns |-> totalConnections, win |-> bq]

\* SubmitNewTicket() from there on: newTicket() validates and signs the
\* ticket, ok telling whether that succeeds, and submitTicket() sends it
\* with CallContext("ticket", ...)
SubmitTicket(ok) ==
    /\ tpc = "build"
    /\ IF ok
       THEN /\ lastSent' = newTicket
            /\ tpc' = "reply"
            /\ UNCHANGED <<terr, towner, depth, ipc>>
       ELSE /\ TicketReturn("sign")
            /\ UNCHANGED lastSent
    /\ UNCHANGED <<db, bq, pass, vpc, verr, lvbn, blockHeaders, peak, rpcs,
                   persisted,
                   totalBytes, totalConnections, counter, nTraffic, checked,
                   resp, logged>>

\* submitTicket(): CallContext returns r.  The server answers as it likes,
\* but a legitimate TicketTooLow only while the nesting is below its cap.
ReceiveReply(r) ==
    /\ tpc = "reply"
    /\ r.kind = "tooLow" /\ Legitimate(r.last) => depth < MaxResubmit
    /\ resp' = r
    /\ tpc' = "handle"
    /\ UNCHANGED <<valVars, totalBytes, totalConnections, counter, nTraffic,
                   towner, checked, depth, lastSent, logged, terr>>

\* submitTicket() after CallContext.  A TicketTooLow with a legitimate
\* previous ticket sets the totals and calls SubmitNewTicket() again; any
\* other DeviceTicket and any other response return nil.
HandleReply ==
    /\ tpc = "handle"
    /\ resp' = NoReply
    /\ IF resp.kind = "error"
       THEN /\ TicketReturn("submit")
            /\ UNCHANGED <<totalBytes, totalConnections, logged>>
       ELSE IF resp.kind = "tooLow" /\ Legitimate(resp.last)
       THEN /\ totalBytes' = resp.last.bytes + 1024
            /\ totalConnections' = resp.last.conns + 1
            /\ depth' = depth + 1
            /\ tpc' = "submitNew"
            /\ UNCHANGED <<terr, towner, ipc, logged>>
       ELSE /\ logged' = IF resp.kind = "tooLow" THEN "fake"
                         ELSE IF resp.kind = "tooOld" THEN "tooOld"
                         ELSE logged
            /\ TicketReturn("nil")
            /\ UNCHANGED <<totalBytes, totalConnections>>
    /\ UNCHANGED <<db, bq, pass, vpc, verr, lvbn, blockHeaders, peak, rpcs,
                   persisted,
                   counter, nTraffic, checked, lastSent>>

\* the state of the ticket flow when the client is built
InitTick ==
    /\ totalBytes = 0
    /\ totalConnections = 0
    /\ counter = 0
    /\ nTraffic = 0
    /\ tpc = "idle"
    /\ towner = "none"
    /\ checked = FALSE
    /\ depth = 0
    /\ lastSent = NoTicket
    /\ resp = NoReply
    /\ logged = "none"
    /\ terr = "nil"

InitNet(d) == InitVal(d) /\ InitTick

\* RetryAllowed gone wrong: one retry more
RetryAllowedOnceMore == iRetry <= RetryTimes + 1

\* -------------------------------------------------------------- doConnect
\* the for condition of doConnect(): i <= client.config.RetryTimes
RetryAllowed == iRetry <= RetryTimes

\* doConnect(): connErr = client.doDial(), the dial succeeding or not; after a
\* failure the retry loop is entered with i = 1
DoDial(ok) ==
    /\ cpc = "dial"
    /\ dials' = Append(dials, ok)
    /\ connErr' = IF ok THEN "nil" ELSE "dial"
    /\ IF ok
       THEN /\ cpc' = "keepalive"
            /\ UNCHANGED <<iRetry, isOk>>
       ELSE /\ isOk' = FALSE
            /\ iRetry' = 1
            /\ cpc' = "loop"
    /\ UNCHANGED <<RetryTimes, EnableKeepAlive>>

\* doConnect(), the body of the retry loop: sleep, dial again, break on
\* success, i++ otherwise
Retry(ok) ==
    /\ cpc = "loop"
    /\ RetryAllowed
    /\ dials' = Append(dials, ok)
    /\ connErr' = IF ok THEN "nil" ELSE "dial"
    /\ IF ok
       THEN /\ isOk' = TRUE
            /\ cpc' = "afterloop"
            /\ UNCHANGED iRetry
       ELSE /\ iRetry' = iRetry + 1
            /\ UNCHANGED <<isOk, cpc>>
    /\ UNCHANGED <<RetryTimes, EnableKeepAlive>>

\* doConnect(): the loop ends because its condition is false
RetryEnd ==
    /\ cpc = "loop"
    /\ ~RetryAllowed
    /\ cpc' = "afterloop"
    /\ UNCHANGED <<RetryTimes, EnableKeepAlive, iRetry, isOk, connErr, dials>>

\* doConnect(): if !isOk, return "failed to connect to host"
AfterRetry ==
    /\ cpc = "afterloop"
    /\ IF ~isOk
       THEN /\ connErr' = "failed to connect"
            /\ cpc' = "done"
       ELSE /\ cpc' = "keepalive"
            /\ UNCHANGED connErr
    /\ UNCHANGED <<RetryTimes, EnableKeepAlive, iRetry, isOk, dials>>

\* doConnect(), "enable keepalive": EnableKeepAlive() and
\* SetKeepAliveInterval() on the channel, succeeding or not, and return err
KeepAlive(okEnable, okInterval) ==
    /\ cpc = "keepalive"
    /\ cpc' = "done"
    /\ connErr' = IF ~EnableKeepAlive THEN connErr
              ELSE IF ~okEnable THEN "enable keepalive"
              ELSE IF ~okInterval THEN "keepalive interval"
              ELSE "nil"
    /\ UNCHANGED <<RetryTimes, EnableKeepAlive, iRetry, isOk, dials>>

\* doStart() is about to call doConnect() with a configuration
InitConnect(r, k) ==
    /\ RetryTimes = r
    /\ EnableKeepAlive = k
    /\ cpc = "dial"
    /\ iRetry = 0
    /\ isOk = FALSE
    /\ connErr = "nil"
    /\ dials = <<>>

\* ------------------------------------------------- verified storage reads
\* a storage slot is 32 bytes, read as a number; an address is 20 bytes.
\* Scaled down: the address is the slot modulo addrSpace.
addrSpace == 8

\* AddressOf gone wrong: the whole slot is taken
AddressOfWhole(raw) == raw

\* copy(address[:], raw[12:]): the last 20 bytes of the slot
AddressOf(raw) == raw % addrSpace

\* the slots a server sends: zero, an address, a slot whose last 20 bytes
\* are zero, and one with bytes before the address
Slots == {0, 3, addrSpace, addrSpace + 3}

\* NullData, the empty value returned along with an error
NullData == 0

\* the roots of an account's storage trees and the lists of them a server
\* sends with getaccountroots
RootValues == {1, 2}
RootLists ==
    UNION {[1..n -> RootValues] : n \in 1..MaxRoots}

\* AccountRoots.Find(accountRoot): the index, from 0, of the first root
\* equal to accountRoot, -1 if there is none
Find(roots, accountRoot) ==
    IF \E k \in DOMAIN roots : roots[k] = accountRoot
    THEN (CHOOSE k \in DOMAIN roots :
            /\ roots[k] = accountRoot
            /\ \A j \in 1..(k - 1) : roots[j] # accountRoot) - 1
    ELSE -1

\* What a server answers to one verified read: the outcome of
\* getaccountvalue (acvErr) with the proof tree, of which root is the
\* computed root, modulo the slot index, leaf the value under the key and
\* hasKey whether the tree holds the key, and the outcome of
\* getaccountroots (acrErr) with the list of roots.
Answers ==
    [acvErr : CallErrors, acrErr : CallErrors, roots : RootLists,
     root : RootValues \cup {3}, modulo : 0..(MaxRoots - 1),
     hasKey : BOOLEAN, leaf : {0, 3}]

\* GetAccountValueRaw(blockNumber, addr, key) on the answer a
GetAccountValueRaw(a) ==
    IF a.acvErr # "nil"
    THEN [raw |-> NullData, err |-> a.acvErr]
    ELSE IF a.acrErr # "nil"
    THEN [raw |-> NullData, err |-> a.acrErr]
    ELSE IF Find(a.roots, a.root) # a.modulo
    THEN [raw |-> NullData, err |-> "wrong merkle proof"]
    ELSE IF ~a.hasKey
    THEN [raw |-> NullData, err |-> "get"]
    ELSE [raw |-> a.leaf, err |-> "nil"]

\* An int64 holds 64 of the 256 bits of a slot.  Scaled down: int64Space
\* stands for 2^64.
int64Space == 1024

\* big.Int.Int64(): the low 64 bits of the value, read as a signed number
Int64(x) ==
    LET low == x % int64Space
    IN  IF low >= int64Space \div 2 THEN low - int64Space ELSE low

\* GetAccountValueInt(blockNumber, addr, key): the value as a big integer,
\* zero when the read failed
GetAccountValueInt(a) ==
    LET r == GetAccountValueRaw(a)
    IN  IF r.err # "nil" THEN 0 ELSE r.raw

\* an answer with a proof that verifies, carrying the slot v, and one
\* whose computed root is none of the account's roots
GoodAnswer(v) ==
    [acvErr |-> "nil", acrErr |-> "nil", roots |-> <<1, 2>>, root |-> 2,
     modulo |-> 1, hasKey |-> TRUE, leaf |-> v]
BadProofAnswer ==
    [acvErr |-> "nil", acrErr |-> "nil", roots |-> <<1, 2>>, root |-> 3,
     modulo |-> 1, hasKey |-> TRUE, leaf |-> 3]

\* ----------------------------------------------------------- ResolveBNS
\* ResolveBNS(name), the loop over the array elements from index k on:
\* a read that fails is logged and skipped, the others' addresses appended
RECURSIVE ResolveElements(_, _, _, _)
ResolveElements(elems, k, intSize, addr) ==
    IF k > intSize
    THEN addr
    ELSE LET r == GetAccountValueRaw(elems[k])
         IN  IF r.err # "nil"
             THEN ResolveElements(elems, k + 1, intSize, addr)
             ELSE ResolveElements(elems, k + 1, intSize,
                                  Append(addr, AddressOf(r.raw)))

\* ResolveBNS(name) on a server that answers the read of the array length
\* with q.size, of the single entry with q.entry and of element k with
\* q.elems[k]
ResolveBNS(q) ==
    LET size == GetAccountValueInt(q.size)
        intSize == IF Int64(size) > maxBNSEntries THEN 0 ELSE Int64(size)
    IN  IF intSize = 0
        THEN LET r == GetAccountValueRaw(q.entry)
             IN  IF r.err # "nil"
                 THEN [addr |-> <<>>, err |-> r.err]
                 ELSE IF AddressOf(r.raw) = 0
                 THEN [addr |-> <<0>>, err |-> "errEmptyBNSresult"]
                 ELSE [addr |-> <<AddressOf(r.raw)>>, err |-> "nil"]
        ELSE LET addr == ResolveElements(q.elems, 1, intSize, <<>>)
             IN  IF Len(addr) = 0
                 THEN [addr |-> addr, err |-> "errEmptyBNSresult"]
                 ELSE [addr |-> addr, err |-> "nil"]

\* the answers to the reads of a resolution: the array length 0..MaxElems,
\* or beyond the largest valid count (one more, and two lengths no int64
\* holds), slots, or a proof that fails
SizeAnswers ==
    {GoodAnswer(v) :
        v \in 0..MaxElems \cup
              {maxBNSEntries + 1, int64Space \div 2, int64Space + 1}}
        \cup {BadProofAnswer}
SlotAnswers == {GoodAnswer(v) : v \in Slots} \cup {BadProofAnswer}
Resolutions ==
    [kind : {"ResolveBNS"}, size : SizeAnswers, entry : SlotAnswers,
     elems : [1..MaxElems -> SlotAnswers]]

\* no call and no result
NoRequest == [kind |-> "none"]
NoReturn == [err |-> "none"]

\* ---------------------------------------------------- IsDeviceAllowlisted
\* IsDeviceAllowlisted(fleetAddr, clientAddr) for the default fleet or
\* another one, the server answering the read of the allowlist key with a;
\* reads counts the reads made
IsDeviceAllowlisted(fleet, a) ==
    IF fleet = "DefaultFleetAddr"
    THEN [allowed |-> TRUE, reads |-> 0]
    ELSE [allowed |-> (Int64(GetAccountValueInt(a)) = 1), reads |-> 1]

\* the answers to the read of an allowlist key: a slot holding 0, 1, 2 or
\* a number whose low 64 bits are 1, a proof that fails, or a call that
\* fails
AllowAnswers ==
    {GoodAnswer(v) : v \in {0, 1, 2, int64Space + 1}}
        \cup {BadProofAnswer}
        \cup {[GoodAnswer(1) EXCEPT !.acvErr = e] : e \in RPCErrors}
        \cup {[GoodAnswer(1) EXCEPT !.acrErr = e] : e \in RPCErrors}
        \cup {[GoodAnswer(1) EXCEPT !.hasKey = FALSE]}
AllowQueries ==
    [kind : {"IsDeviceAllowlisted"},
     fleet : {"DefaultFleetAddr", "fleet"}, answer : AllowAnswers]

\* a caller runs IsDeviceAllowlisted
CallIsDeviceAllowlisted ==
    /\ req.kind = "IsDeviceAllowlisted"
    /\ ret = NoReturn
    /\ ret' = IsDeviceAllowlisted(req.fleet, req.answer)
    /\ UNCHANGED req

\* a caller runs GetAccountValueRaw; the server answers with req.answer
CallGetAccountValueRaw ==
    /\ req.kind = "GetAccountValueRaw"
    /\ ret = NoReturn
    /\ ret' = GetAccountValueRaw(req.answer)
    /\ UNCHANGED req

\* a caller runs ResolveBNS; the server answers its reads as req says
CallResolveBNS ==
    /\ req.kind = "ResolveBNS"
    /\ ret = NoReturn
    /\ ret' = ResolveBNS(req)
    /\ UNCHANGED req

\* a call q is about to be made
InitAcct(q) ==
    /\ req = q
    /\ ret = NoReturn

\* ------------------------------------------------- PortOpen, DialContext
\* errPortOpenTimeout
errPortOpenTimeout == "portopen timeout"

\* The errors the portopen call can come back with, by their text: none,
\* the server's error responses "time" (its timeout) and "not found", the
\* cancelled call and the closed client.
PortOpenErrors ==
    {"nil", "time", "not found", "rpc call has been cancelled",
     "rpc client was closed"}

\* PortOpen gone wrong: the error is passed on as it is
PortOpenRaw(e) == e

\* PortOpen(deviceID, port, mode), the error it returns when CallContext
\* returned e: an error whose text has 4 bytes is the server's timeout
PortOpen(e) ==
    IF e # "nil" /\ Len(e) = 4 THEN errPortOpenTimeout ELSE e

\* capacity of retChan: make(chan error, 1)
retChanSize == 1

\* DialContext(ctx, network, addr): parseHost, the pipe, the goroutine
DialContext(parseOk, isWS) ==
    /\ dialPc = "parse"
    /\ IF ~parseOk \/ isWS
       THEN /\ dialPc' = "returned"
            /\ dialErr' = IF ~parseOk THEN "failed to parse host"
                          ELSE "ws domain was not supported"
            /\ UNCHANGED <<loopPc, connHTTP, connDiode>>
       ELSE /\ dialPc' = "wait"
            /\ loopPc' = "portopen"
            /\ connHTTP' = "open"
            /\ connDiode' = "open"
            /\ UNCHANGED dialErr
    /\ UNCHANGED <<retChan, callbacks, portAnswer, loopErr>>

\* connectDeviceAndLoop(): it opens the port; when PortOpen fails it
\* returns that error without a connection
ConnectPortOpen(e) ==
    /\ loopPc = "portopen"
    /\ portAnswer' = e
    /\ IF PortOpen(e) # "nil"
       THEN /\ loopErr' = PortOpen(e)
            /\ loopPc' = "returned"
       ELSE /\ loopPc' = "loop"
            /\ UNCHANGED loopErr
    /\ UNCHANGED <<dialPc, retChan, callbacks, dialErr, connHTTP, connDiode>>

\* connectDeviceAndLoop() invokes the connection callback
Callback ==
    /\ loopPc = "loop"
    /\ callbacks < MaxCallbacks
    /\ callbacks' = callbacks + 1
    /\ loopPc' = "send"
    /\ UNCHANGED <<dialPc, retChan, portAnswer, loopErr, dialErr, connHTTP,
                   connDiode>>

\* the callback: retChan <- nil, which waits while the channel is full,
\* and return connDiode
SendNil ==
    /\ loopPc = "send"
    /\ Len(retChan) < retChanSize
    /\ retChan' = Append(retChan, "nil")
    /\ loopPc' = "loop"
    /\ UNCHANGED <<dialPc, callbacks, portAnswer, loopErr, dialErr, connHTTP,
                   connDiode>>

\* connectDeviceAndLoop() returns e
LoopReturn(e) ==
    /\ loopPc = "loop"
    /\ loopErr' = e
    /\ loopPc' = "returned"
    /\ UNCHANGED <<dialPc, retChan, callbacks, portAnswer, dialErr, connHTTP,
                   connDiode>>

\* the goroutine: if err != nil { retChan <- err }
SendErr ==
    /\ loopPc = "returned"
    /\ IF loopErr # "nil"
       THEN /\ Len(retChan) < retChanSize
            /\ retChan' = Append(retChan, loopErr)
       ELSE UNCHANGED retChan
    /\ loopPc' = "close"
    /\ UNCHANGED <<dialPc, callbacks, portAnswer, loopErr, dialErr, connHTTP,
                   connDiode>>

\* the goroutine: connHTTP.Close()
CloseHTTP ==
    /\ loopPc = "close"
    /\ connHTTP' = "closed"
    /\ loopPc' = "close2"
    /\ UNCHANGED <<dialPc, retChan, callbacks, portAnswer, loopErr, dialErr,
                   connDiode>>

\* the goroutine: connDiode.Close(), its last statement
CloseDiode ==
    /\ loopPc = "close2"
    /\ connDiode' = "closed"
    /\ loopPc' = "done"
    /\ UNCHANGED <<dialPc, retChan, callbacks, portAnswer, loopErr, dialErr,
                   connHTTP>>

\* what connectDeviceAndLoop() can return once the port is open: nil, or
\* the error that ended the connection
LoopErrors == {"nil", "EOF", "io: read/write on closed pipe",
               "rpc client was closed"}

\* DialContext(): return connHTTP, <-retChan
Receive ==
    /\ dialPc = "wait"
    /\ retChan # <<>>
    /\ dialErr' = Head(retChan)
    /\ retChan' = Tail(retChan)
    /\ dialPc' = "returned"
    /\ UNCHANGED <<loopPc, callbacks, portAnswer, loopErr, connHTTP,
                   connDiode>>

\* the front-end is done with the connection DialContext returned to it
\* and closes it
FrontEndClose ==
    /\ dialPc = "returned"
    /\ dialErr = "nil"
    /\ connHTTP = "open"
    /\ connHTTP' = "closed"
    /\ UNCHANGED <<dialPc, loopPc, retChan, callbacks, portAnswer, loopErr,
                   dialErr, connDiode>>

\* a front-end is about to call DialContext
InitDial ==
    /\ dialPc = "parse"
    /\ loopPc = "none"
    /\ retChan = <<>>
    /\ callbacks = 0
    /\ portAnswer = "none"
    /\ loopErr = "none"
    /\ dialErr = "none"
    /\ connHTTP = "none"
    /\ connDiode = "none"

\* ------------------------------------------- waitResponse and the sender
Ports == 1..NumPorts
PortCalls == 1..NumPortCalls

\* call.sender == nil
NoSender == 0

\* a ConnectedPort that was opened and has sent without error
OpenPort == [sendErr |-> "nil", closed |-> FALSE]

\* a call that was not issued yet
NoCall == [sender |-> NoSender, at |-> "none", ret |-> "none"]

\* ConnectedPort.Close(): the port is closed
PortClose(port) == [port EXCEPT !.closed = TRUE]

\* the sender's handling gone wrong: every port of the client is closed
SenderFailsAll(ps, p, e) ==
    [x \in Ports |-> PortClose([ps[x] EXCEPT !.sendErr = e])]

\* waitResponse: if call.sender != nil { call.sender.sendErr = e;
\* call.sender.Close() }
SenderFails(ps, p, e) ==
    IF p = NoSender THEN ps
    ELSE [ps EXCEPT ![p] = PortClose([ps[p] EXCEPT !.sendErr = e])]

\* CastContext(sender, method, args): the call is built for sender, inserted
\* and waited for
IssueCall(k, p) ==
    /\ pcalls[k].at = "none"
    /\ p # NoSender => ~ports[p].closed
    /\ pcalls' = [pcalls EXCEPT ![k] = [sender |-> p, at |-> "wait",
                                        ret |-> "none"]]
    /\ UNCHANGED <<ports, hostServes>>

\* waitResponse: a value arrives on call.response, an edge.Error or the
\* response
WaitResponse(k, r) ==
    /\ pcalls[k].at = "wait"
    /\ pcalls' = [pcalls EXCEPT ![k].at = "done", ![k].ret = r]
    /\ ports' = IF r = "rpcError"
                THEN SenderFails(ports, pcalls[k].sender, "RPCError")
                ELSE ports
    /\ UNCHANGED hostServes

\* the call is cancelled: call.response is closed, and waitResponse asks
\* the actor for Host()
CancelCall(k) ==
    /\ pcalls[k].at = "wait"
    /\ pcalls' = [pcalls EXCEPT ![k].at = "host"]
    /\ UNCHANGED <<ports, hostServes>>

\* waitResponse, call.response was closed: err = CancelledError{Host()},
\* then the sender
WaitResponseCancelled(k) ==
    /\ pcalls[k].at = "host"
    /\ hostServes
    /\ pcalls' = [pcalls EXCEPT ![k].at = "done", ![k].ret = "cancelled"]
    /\ ports' = SenderFails(ports, pcalls[k].sender, "EOF")
    /\ UNCHANGED hostServes

\* client.srv.Shutdown(0): the actor serves nothing any more
HostShutdown ==
    /\ hostServes
    /\ hostServes' = FALSE
    /\ UNCHANGED <<ports, pcalls>>

\* the ports are open and no call was issued
InitPort ==
    /\ ports = [p \in Ports |-> OpenPort]
    /\ pcalls = [k \in PortCalls |-> NoCall]
    /\ hostServes = TRUE

\* ---------------------------------------------- GetBlockHeadersUnsafe2
\* the block numbers a caller asks for, in any order and with repetitions
FetchNumbers == 1..MaxFetchNumber
FetchLists ==
    UNION {[1..len -> FetchNumbers] : len \in 0..MaxFetch}

\* a goroutine that has not come back from GetBlockHeaderUnsafe
Running == [at |-> "run", header |-> Header(0, "main")]

\* GetBlockHeadersUnsafe2 has not returned
NotFetched == [err |-> "none", headers |-> <<>>]

\* the copy gone wrong: the headers are laid out from the last requested
\* number to the first
CopyResponsesReversed(nums, fetched) ==
    [j \in 1..Len(nums) |-> fetched[nums[Len(nums) + 1 - j]]]

\* copy responses to headers: headers[i] = responses[blockNumbers[i]]
CopyResponses(nums, fetched) ==
    [j \in 1..Len(nums) |-> fetched[nums[j]]]

\* one goroutine: GetBlockHeaderUnsafe(bn) comes back with an error, and
\* the goroutine returns, or with a header, which it counts and stores
\* under the mutex
FetchOne(j, ok, v) ==
    /\ j \in DOMAIN fetches
    /\ fetches[j].at = "run"
    /\ IF ok
       THEN /\ fetches' = [fetches EXCEPT ![j] =
                    [at |-> "ok", header |-> Header(blockNumbers[j], v)]]
            /\ headersCount' = headersCount + 1
            /\ responses' = [n \in DOMAIN responses \cup {blockNumbers[j]} |->
                                IF n = blockNumbers[j]
                                THEN Header(blockNumbers[j], v)
                                ELSE responses[n]]
       ELSE /\ fetches' = [fetches EXCEPT ![j].at = "err"]
            /\ UNCHANGED <<headersCount, responses>>
    /\ UNCHANGED <<blockNumbers, fetchRet>>

\* wg.Wait() is over: the count is tested and the responses are copied
FetchReturn ==
    /\ fetchRet = NotFetched
    /\ \A j \in DOMAIN fetches : fetches[j].at # "run"
    /\ fetchRet' =
           IF headersCount # Len(blockNumbers)
           THEN [err |-> "failed fetching all blocks", headers |-> <<>>]
           ELSE [err |-> "nil",
                 headers |-> CopyResponses(blockNumbers, responses)]
    /\ UNCHANGED <<blockNumbers, fetches, responses, headersCount>>

\* GetBlockHeadersUnsafe2(nums) has started its goroutines
InitFetch(nums) ==
    /\ blockNumbers = nums
    /\ fetches = [j \in 1..Len(nums) |-> Running]
    /\ responses = <<>>
    /\ headersCount = 0
    /\ fetchRet = NotFetched

\* ---------------------------------------------------------------- Start
\* the actor runs its tasks in the order they were queued: the task of
\* Start() is the first, and a client.call is served after it, while the
\* actor serves
ServesCalls == connectPc = "done" /\ ActorServes

\* the RPC stages of initialize(): validateNetwork, validateNetwork once
\* more after a reference block that did not match, and greet
RPCStages == {"validate", "validate2", "greet"}

\* the goroutine waits for the responses of a stage
WaitOf(stage) ==
    CASE stage = "validate" -> "validateWait"
      [] stage = "validate2" -> "validate2Wait"
      [] stage = "greet" -> "greetWait"

WaitStages == {WaitOf(stage) : stage \in RPCStages}

\* how a stage ends: without error, with an error, or with the error
\* "sent reference block does not match"
StageResults == {"nil", "error", "reference"}

\* the task of Start(): doStart() connects, adds the workers and installs
\* the send hook; when it fails the task shuts the actor down
DoStart(ok) ==
    /\ connectPc = "queued"
    /\ ActorServes
    /\ IF ok
       THEN /\ connectPc' = "done"
            /\ channel' = TRUE
            /\ sendCallPtr' = TRUE
            /\ UNCHANGED srvShutdown
       ELSE /\ connectPc' = "failed"
            /\ srvShutdown' = TRUE
            /\ UNCHANGED <<channel, sendCallPtr>>
    /\ UNCHANGED <<initPc, insertedEarly, isClosed, pool>>
    /\ UNCHANGED <<globalRequestID, cm, closeCount, pc, op, rid, res, after,
                   closeCalls, closePc, noopCloses>>

\* initialize(), an RPC of validateNetwork or greet: insertCall is a
\* client.call, which fails with errClientClosed on a closed client and
\* inserts the call otherwise
InitInsert(stage) ==
    /\ initPc = stage
    /\ ServesCalls
    /\ IF isClosed
       THEN /\ initPc' = "failed"
            /\ UNCHANGED insertedEarly
       ELSE /\ initPc' = WaitOf(stage)
            /\ insertedEarly' = (insertedEarly \/ ~channel \/ ~sendCallPtr)
    /\ UNCHANGED <<connectPc, channel, sendCallPtr, isClosed, srvShutdown,
                   pool>>
    /\ UNCHANGED <<globalRequestID, cm, closeCount, pc, op, rid, res, after,
                   closeCalls, closePc, noopCloses>>

\* initialize(): the RPCs of the stage are answered and the stage succeeds
\* or fails
InitAnswer(e) ==
    /\ initPc \in WaitStages
    /\ ~isClosed
    /\ initPc' = IF e = "nil"
                 THEN IF initPc = "greetWait" THEN "up" ELSE "serverid"
                 ELSE IF e = "reference" /\ initPc = "validateWait"
                 THEN "validate2"
                 ELSE "failed"
    /\ UNCHANGED <<connectPc, channel, sendCallPtr, insertedEarly, isClosed,
                   srvShutdown, pool>>
    /\ UNCHANGED <<globalRequestID, cm, closeCount, pc, op, rid, res, after,
                   closeCalls, closePc, noopCloses>>

\* initialize(): Close() has removed the call, and waitResponse asks the
\* actor for Host() before it returns the CancelledError
InitCancelled ==
    /\ initPc \in WaitStages
    /\ isClosed
    /\ ServesCalls
    /\ initPc' = "failed"
    /\ UNCHANGED <<connectPc, channel, sendCallPtr, insertedEarly, isClosed,
                   srvShutdown, pool>>
    /\ UNCHANGED <<globalRequestID, cm, closeCount, pc, op, rid, res, after,
                   closeCalls, closePc, noopCloses>>

\* initialize(): client.s.GetServerID()
StartServerID(ok) ==
    /\ initPc = "serverid"
    /\ initPc' = IF ok THEN "greet" ELSE "failed"
    /\ UNCHANGED <<connectPc, channel, sendCallPtr, insertedEarly, isClosed,
                   srvShutdown, pool>>
    /\ UNCHANGED <<globalRequestID, cm, closeCount, pc, op, rid, res, after,
                   closeCalls, closePc, noopCloses>>

\* the goroutine of Start(): initialize() has failed; if !client.isClosed
\* it warns and calls Close()
InitFailed ==
    /\ initPc = "failed"
    /\ initPc' = IF isClosed THEN "exit" ELSE "close"
    /\ UNCHANGED <<connectPc, channel, sendCallPtr, insertedEarly, isClosed,
                   srvShutdown, pool>>
    /\ UNCHANGED <<globalRequestID, cm, closeCount, pc, op, rid, res, after,
                   closeCalls, closePc, noopCloses>>

\* the goroutine of Start(): the task of its Close() is served
InitClose ==
    /\ initPc = "close"
    /\ connectPc = "done"
    /\ CloseTask
    /\ initPc' = "exit"
    /\ UNCHANGED <<connectPc, channel, sendCallPtr, insertedEarly>>

\* the owner of the client calls Close() on it
OwnerClose ==
    /\ closeCalls < MaxCloses - 1
    /\ connectPc = "done"
    /\ CloseTask
    /\ UNCHANGED startVars

\* a port is opened on the connected client and inserted in the pool
StartPort(p) ==
    /\ ServesCalls
    /\ ~isClosed
    /\ p \notin pool
    /\ pool' = pool \cup {p}
    /\ UNCHANGED <<isClosed, srvShutdown>>
    /\ UNCHANGED <<globalRequestID, cm, closeCount, pc, op, rid, res, after,
                   closeCalls, closePc, noopCloses>>
    /\ UNCHANGED startVars

\* Start() has cast the connect task and started the goroutine
InitStart ==
    /\ connectPc = "queued"
    /\ initPc = "validate"
    /\ channel = FALSE
    /\ sendCallPtr = FALSE
    /\ insertedEarly = FALSE

\* ------------------------------------------------------- specification
InitAux ==
    /\ InitConnect(0, FALSE)
    /\ InitAcct(NoRequest)
    /\ InitDial
    /\ InitPort
    /\ InitFetch(<<>>)
    /\ InitStart

InitLife ==
    /\ isClosed = FALSE
    /\ srvShutdown = FALSE
    /\ globalRequestID = 0
    /\ cm = {}
    /\ pool = {}
    /\ closeCount = [f \in {"cancel", "ticker", "onClose", "channel", "ports"}
                        |-> 0]
    /\ pc = [c \in Callers |-> "idle"]
    /\ op = [c \in Callers |-> "call"]
    /\ rid = [c \in Callers |-> 0]
    /\ res = [c \in Callers |-> "none"]
    /\ after = [c \in Callers |-> FALSE]
    /\ closeCalls = 0
    /\ closePc = "none"
    /\ noopCloses = 0

Init == InitLife /\ InitNet(NoAnchor) /\ InitAux

Next ==
    \/ \E c \in Callers, o \in Ops : Begin(c, o) /\ UNCHANGED offLife
    \/ \E c \in Callers : InsertCall(c) /\ UNCHANGED offLife
    \/ \E call \in cm : SendCall(call) /\ UNCHANGED offLife
    \/ \E c \in Callers, r \in {"response", "rpcError"} :
            Deliver(c, r) /\ UNCHANGED offLife
    \/ \E call \in cm : DeliverCast(call) /\ UNCHANGED offLife
    \/ \E c \in Callers : HostCall(c) /\ UNCHANGED offLife
    \/ \E c \in Callers : RemoveCallByID(c) /\ UNCHANGED offLife
    \/ \E c \in Callers : GetDeviceKey(c) /\ UNCHANGED offLife
    \/ \E c \in Callers : SetPort(c) /\ UNCHANGED offLife
    \/ CloseTask /\ UNCHANGED offLife
    \/ ClosePorts /\ UNCHANGED offLife
    \/ Shutdown /\ UNCHANGED offLife

Spec == Init /\ [][Next]_vars

\* the client starts on any store, validates the network, greets the
\* server and accounts for its traffic with tickets
InitNetSpec == InitLife /\ InitAux /\ \E d \in Anchors : InitNet(d)

NextNet ==
    \/ \E ok \in BOOLEAN, vs \in [1..windowSize -> Variants] :
            ValidateBootstrap(ok, vs) /\ UNCHANGED offNet
    \/ \E e \in CallErrors, p \in 0..MaxBlock :
            GetBlockPeak(e, p) /\ UNCHANGED offNet
    \/ \E e \in CallErrors, len \in 0..MaxBatch :
            \E vs \in [1..len -> Variants] :
                ValidateBlocks(e, vs) /\ UNCHANGED offNet
    \/ AfterValidate /\ UNCHANGED offNet
    \/ \E ok \in BOOLEAN : InitServerID(ok) /\ UNCHANGED offNet
    \/ \E ok \in BOOLEAN : Greet(ok) /\ UNCHANGED offNet
    \/ \E n \in {1, ticketBound} : Traffic(n) /\ UNCHANGED offNet
    \/ NewConnection /\ UNCHANGED offNet
    \/ CheckTicket /\ UNCHANGED offNet
    \/ CheckTicketSubmit /\ UNCHANGED offNet
    \/ \E ok \in BOOLEAN : SubmitNewTicket(ok) /\ UNCHANGED offNet
    \/ \E ok \in BOOLEAN : SubmitTicket(ok) /\ UNCHANGED offNet
    \/ \E r \in Replies : ReceiveReply(r) /\ UNCHANGED offNet
    \/ HandleReply /\ UNCHANGED offNet

SpecNet == InitNetSpec /\ [][NextNet]_vars

\* doConnect() under every configuration, the dials failing as they like
InitConnectSpec ==
    /\ InitLife
    /\ InitStart
    /\ InitFetch(<<>>)
    /\ InitPort
    /\ InitDial
    /\ InitNet(NoAnchor)
    /\ InitAcct(NoRequest)
    /\ \E r \in 0..MaxRetryTimes, k \in BOOLEAN : InitConnect(r, k)

offConn ==
    <<lifeVars, netVars, acctVars, dialVars, portVars, fetchVars, startVars>>

NextConnect ==
    \/ \E ok \in BOOLEAN : DoDial(ok) /\ UNCHANGED offConn
    \/ \E ok \in BOOLEAN : Retry(ok) /\ UNCHANGED offConn
    \/ RetryEnd /\ UNCHANGED offConn
    \/ AfterRetry /\ UNCHANGED offConn
    \/ \E okEnable, okInterval \in BOOLEAN :
            KeepAlive(okEnable, okInterval) /\ UNCHANGED offConn

SpecConnect == InitConnectSpec /\ [][NextConnect]_vars

\* verified reads and BNS resolutions against a server that answers as it
\* likes
InitAcctSpec ==
    /\ InitLife
    /\ InitStart
    /\ InitFetch(<<>>)
    /\ InitPort
    /\ InitDial
    /\ InitNet(NoAnchor)
    /\ InitConnect(0, FALSE)
    /\ \/ \E a \in Answers :
            InitAcct([kind |-> "GetAccountValueRaw", answer |-> a])
       \/ \E q \in Resolutions : InitAcct(q)
       \/ \E q \in AllowQueries : InitAcct(q)

offAcct ==
    <<lifeVars, netVars, connVars, dialVars, portVars, fetchVars, startVars>>

NextAcct ==
    \/ CallGetAccountValueRaw /\ UNCHANGED offAcct
    \/ CallResolveBNS /\ UNCHANGED offAcct
    \/ CallIsDeviceAllowlisted /\ UNCHANGED offAcct

SpecAcct == InitAcctSpec /\ [][NextAcct]_vars

\* a front-end dials a device; the port opens or not and the connection
\* loop behaves as it likes
InitDialSpec ==
    /\ InitLife
    /\ InitStart
    /\ InitFetch(<<>>)
    /\ InitPort
    /\ InitNet(NoAnchor)
    /\ InitConnect(0, FALSE)
    /\ InitAcct(NoRequest)
    /\ InitDial

offDial ==
    <<lifeVars, netVars, connVars, acctVars, portVars, fetchVars, startVars>>

NextDial ==
    \/ \E parseOk, isWS \in BOOLEAN :
            DialContext(parseOk, isWS) /\ UNCHANGED offDial
    \/ \E e \in PortOpenErrors : ConnectPortOpen(e) /\ UNCHANGED offDial
    \/ Callback /\ UNCHANGED offDial
    \/ SendNil /\ UNCHANGED offDial
    \/ \E e \in LoopErrors : LoopReturn(e) /\ UNCHANGED offDial
    \/ SendErr /\ UNCHANGED offDial
    \/ CloseHTTP /\ UNCHANGED offDial
    \/ CloseDiode /\ UNCHANGED offDial
    \/ Receive /\ UNCHANGED offDial
    \/ FrontEndClose /\ UNCHANGED offDial

SpecDial == InitDialSpec /\ [][NextDial]_vars

\* calls are issued for the ports of a client, answered and cancelled
InitPortSpec ==
    /\ InitLife
    /\ InitStart
    /\ InitFetch(<<>>)
    /\ InitNet(NoAnchor)
    /\ InitConnect(0, FALSE)
    /\ InitAcct(NoRequest)
    /\ InitDial
    /\ InitPort

offPort ==
    <<lifeVars, netVars, connVars, acctVars, dialVars, fetchVars, startVars>>

NextPort ==
    \/ \E k \in PortCalls, p \in Ports \cup {NoSender} :
            IssueCall(k, p) /\ UNCHANGED offPort
    \/ \E k \in PortCalls, r \in {"response", "rpcError"} :
            WaitResponse(k, r) /\ UNCHANGED offPort
    \/ \E k \in PortCalls : CancelCall(k) /\ UNCHANGED offPort
    \/ \E k \in PortCalls : WaitResponseCancelled(k) /\ UNCHANGED offPort
    \/ HostShutdown /\ UNCHANGED offPort

SpecPort == InitPortSpec /\ [][NextPort]_vars

\* headers are fetched for any list of block numbers; each fetch fails or
\* succeeds, in any order
InitFetchSpec ==
    /\ InitLife
    /\ InitStart
    /\ InitNet(NoAnchor)
    /\ InitConnect(0, FALSE)
    /\ InitAcct(NoRequest)
    /\ InitDial
    /\ InitPort
    /\ \E nums \in FetchLists : InitFetch(nums)

offFetch ==
    <<lifeVars, netVars, connVars, acctVars, dialVars, portVars, startVars>>

NextFetch ==
    \/ \E j \in 1..MaxFetch, ok \in BOOLEAN, v \in Variants :
            FetchOne(j, ok, v) /\ UNCHANGED offFetch
    \/ FetchReturn /\ UNCHANGED offFetch

SpecFetch == InitFetchSpec /\ [][NextFetch]_vars

\* a client is started: it connects or not, initializes or not, and its
\* owner may close it
InitStartSpec ==
    /\ InitLife
    /\ InitNet(NoAnchor)
    /\ InitConnect(0, FALSE)
    /\ InitAcct(NoRequest)
    /\ InitDial
    /\ InitPort
    /\ InitFetch(<<>>)
    /\ InitStart

offStart ==
    <<netVars, connVars, acctVars, dialVars, portVars, fetchVars>>

NextStart ==
    \/ \E ok \in BOOLEAN : DoStart(ok) /\ UNCHANGED offStart
    \/ \E stage \in RPCStages : InitInsert(stage) /\ UNCHANGED offStart
    \/ \E e \in StageResults : InitAnswer(e) /\ UNCHANGED offStart
    \/ InitCancelled /\ UNCHANGED offStart
    \/ \E ok \in BOOLEAN : StartServerID(ok) /\ UNCHANGED offStart
    \/ InitFailed /\ UNCHANGED offStart
    \/ InitClose /\ UNCHANGED offStart
    \/ OwnerClose /\ UNCHANGED offStart
    \/ \E p \in Ports : StartPort(p) /\ UNCHANGED offStart
    \/ ClosePorts /\ UNCHANGED <<offStart, startVars>>
    \/ Shutdown /\ UNCHANGED <<offStart, startVars>>

SpecStart == InitStartSpec /\ [][NextStart]_vars

BlockedOnActor(c) ==
    srvShutdown /\ Waits(op[c]) /\ pc[c] \in {"insert", "host"}

\* C2: every caller blocked in waitResponse when Close() runs, and every
\* caller whose insert races with Close(), returns: no caller is left
\* blocked for ever once the client is closed and its actor shut down.
C2_NoCallerBlockedForever == \A c \in Callers : ~BlockedOnActor(c)

\* C3: after Close() has returned the pool holds no port of the client,
\* also when a port open was in flight while Close() ran.
C3_NoPortAfterClose == closePc = "returned" => pool = {}

\* C4: Close() is idempotent: each part of the cleanup (cancelling the calls,
\* the ticker-stop signal, OnClose, closing the channel, ClosePorts) runs at
\* most once, and a Close() after the first changes no state of the client.
C4_CloseIdempotent ==
    /\ [](\A f \in DOMAIN closeCount : closeCount[f] <= 1)
    /\ [][(isClosed /\ closeCalls' # closeCalls) =>
            UNCHANGED <<isClosed, srvShutdown, cm, pool, closeCount, pc, res,
                        closePc>>]_vars

\* two Close() calls have returned and the cleanup ran once
C4_Witness ==
    /\ closePc = "returned"
    /\ noopCloses >= 1
    /\ \A f \in DOMAIN closeCount : closeCount[f] = 1

\* --------------------------------------------------- claims, tickets
\* C5: each ticket the client submits has TotalBytes and TotalConnections
\* at least those of the ticket submitted before it.
C5_TicketTotalsMonotone ==
    [][(lastSent.built /\ lastSent' # lastSent)
        => /\ lastSent'.bytes >= lastSent.bytes
           /\ lastSent'.conns >= lastSent.conns]_vars

\* C6 as stated: a CheckTicket that finds the total bytes not above the
\* counter plus 4194304 submits nothing, and one that finds them above it
\* has submitted a ticket when it returns.
C6_SubmitsExactlyWhenExceeded ==
    /\ [][(tpc = "checked" /\ ~checked /\ tpc' # "checked")
            => tpc' = "idle" /\ lastSent' = lastSent]_vars
    /\ [][(towner = "check" /\ tpc # "idle" /\ tpc' = "idle")
            => (tpc = "handle" \/ depth > 0)]_vars

\* C6: CheckTicket calls SubmitNewTicket exactly when the total bytes are
\* above the counter plus 4194304; the SubmitNewTicket it calls returns
\* without having submitted a ticket only when the client has no validated
\* window or newTicket fails; newTicket sets the counter to the total
\* bytes, after which the total bytes are not above the counter plus
\* 4194304.
C6_CheckTicketThreshold ==
    /\ [][(tpc = "idle" /\ tpc' = "checked")
            => (checked' <=> totalBytes > counter + 4194304)]_vars
    /\ [][(tpc = "checked" /\ tpc' # "checked")
            => /\ tpc' = "submitNew" <=> checked
               /\ ~checked => tpc' = "idle" /\ lastSent' = lastSent]_vars
    /\ [][(towner = "check" /\ tpc # "idle" /\ tpc' = "idle")
            => \/ tpc = "handle"
               \/ depth > 0
               \/ bq = Nil
               \/ terr' \in {"serverid", "sign"}]_vars
    /\ [][(tpc = "submitNew" /\ tpc' = "build")
            => /\ counter' = totalBytes'
               /\ ~(totalBytes' > counter' + 4194304)]_vars

\* a CheckTicket found the threshold exceeded and its ticket, carrying the
\* total bytes the counter was set to, is with the server
C6_Witness ==
    /\ towner = "check"
    /\ tpc = "reply"
    /\ lastSent.built
    /\ lastSent.bytes = counter
    /\ counter > 4194304

\* C7: one submitTicket invocation causes at most one re-submission: the
\* nesting of submitTicket in itself never goes beyond one.
C7_AtMostOneResubmission == depth <= 1

\* the previous ticket of a reply verifies neither as received nor after
\* the force-decode of its local address
C8_Fake(t) ==
    /\ ~ValidateDeviceSig(t)
    /\ ~ValidateDeviceSig([t EXCEPT !.localAddr = DecodeForce(@)])

\* C8: when submitTicket handles a TicketTooLow reply whose previous ticket
\* does not verify, total bytes, total connections and the counter are
\* unchanged, no ticket is re-submitted and submitTicket returns nil.
C8_FakeTooLowIgnored ==
    [][(/\ tpc = "handle"
        /\ tpc' # "handle"
        /\ resp.kind = "tooLow"
        /\ C8_Fake(resp.last))
        => /\ UNCHANGED <<totalBytes, totalConnections, counter, lastSent>>
           /\ tpc' = "idle"
           /\ terr' = "nil"]_vars

\* a ticket was submitted, the reply was logged as fake and the ticket flow
\* has returned nil
C8_Witness ==
    /\ tpc = "idle"
    /\ logged = "fake"
    /\ terr = "nil"
    /\ lastSent.built

\* C9: every submitted ticket carries the block number and hash the
\* validated window reported as Last() when the ticket was built, and while
\* the client has no validated window no ticket is built or submitted.
C9_TicketCarriesLastValid ==
    /\ lastSent.built
        => /\ lastSent.win # Nil
           /\ <<lastSent.bn, lastSent.bh>> = Last(lastSent.win)
    /\ bq = Nil
        => /\ ~lastSent.built
           /\ tpc \notin {"build", "reply", "handle"}

\* a ticket is with the server that carries a Last() beyond the built-in
\* anchor
C9_Witness ==
    /\ tpc = "reply"
    /\ lastSent.built
    /\ lastSent.bn > windowSize
    /\ lastSent.bh = Hash(Header(lastSent.bn, "main"))

\* ---------------------------------------------- claims, validateNetwork
\* C10: whenever validateNetwork succeeds, every bootstrap header it
\* checked chains to its predecessor by parent hash and has a valid miner
\* signature, the newest header at the tail included.
C10_BootstrapHeadersValid ==
    (ipc = "validate" /\ vpc = "returned" /\ verr = "nil")
        => \A i \in 1..Len(blockHeaders) :
                /\ ValidateSig(blockHeaders[i])
                /\ i > 1 => Parent(blockHeaders[i]) = Hash(blockHeaders[i - 1])

\* C11: when the fetched header numbered lvbn does not hash to the stored
\* lvbh, validateNetwork deletes the stored anchor (the next
\* restoreLastValid gives the built-in one) and fails with the reference
\* error; the client's window and the stored hash stay as they were, and
\* the pass has issued no call but the header fetch.  A pass goes on to the
\* peak only with a tail header that hashes to lvbh.
C11_AnchorMismatchDeletesAnchor ==
    /\ [][(ipc = "validate" /\ vpc = "start" /\ vpc' = "returned"
                /\ verr' = "anchor")
            => /\ ~db'.hasN
               /\ db'.hasH = db.hasH /\ db'.h = db.h
               /\ bq' = bq
               /\ rpcs' = {"getblockheader2"}]_vars
    /\ [][(ipc = "validate" /\ vpc = "start" /\ vpc' = "peak")
            => /\ Hash(blockHeaders'[windowSize]) = restoreLastValid[2]
               /\ db' = db]_vars
    /\ []((ipc = "validate" /\ vpc = "returned" /\ verr = "anchor")
            => /\ restoreLastValid = DefaultAnchor
               /\ rpcs = {"getblockheader2"})

\* a first pass on a stored anchor other than the built-in one has failed
\* on the reference block: the stored number is gone, the hash still there
C11_Witness ==
    /\ ipc = "validate"
    /\ vpc = "returned"
    /\ verr = "anchor"
    /\ pass = 1
    /\ ~db.hasN
    /\ db.hasH
    /\ db.h # DefaultAnchor[2]

\* C12 as stated: initialize runs validateNetwork a second time exactly
\* when the first pass failed with the reference (anchor mismatch) error;
\* after any other failure of the first pass it returns that error.
C12_SecondPassExactlyOnAnchorMismatch ==
    [][(ipc = "validate" /\ vpc = "returned" /\ pass = 1
            /\ (vpc' # vpc \/ ipc' # ipc))
        => (pass' = 2 <=> verr = "anchor")]_vars

\* C13 as stated: no header numbered above peak - confirmationSize + 1 is
\* admitted to the window by a pass, whatever peak the server reports: after
\* a successful pass every header of the installed window beyond lvbn is
\* numbered peak - confirmationSize + 1 at most.
C13_NoHeaderAbovePeakMinusC ==
    (ipc = "validate" /\ vpc = "returned" /\ verr = "nil")
        => \A i \in DOMAIN bq.blocks :
                bq.blocks[i].number > lvbn
                    => bq.blocks[i].number <= peak - confirmationSize + 1

\* C14 as stated: validateNetwork fails for lack of progress only when
\* peak - windowSize > lvbn as integers, so never for a peak below
\* windowSize.
C14_NoProgressOnlyBehindPeak ==
    (ipc = "validate" /\ vpc = "returned" /\ verr = "noprogress")
        => peak - windowSize > lvbn

\* C15: validateNetwork installs the new window and persists its Last()
\* exactly when it returns success.  A pass that returns an error leaves
\* the client's window and the stored hash as they were, and but for the
\* reference error the whole store; nothing else than a successful return
\* changes the window or the stored hash.
C15_InstallsExactlyOnSuccess ==
    /\ [][(ipc = "validate" /\ vpc # "returned" /\ vpc' = "returned")
            => IF verr' = "nil"
               THEN /\ bq' # Nil
                    /\ bq'.blocks # <<>>
                    /\ db'.hasN /\ db'.hasH
                    /\ <<db'.n, db'.h>> = Last(bq')
               ELSE /\ bq' = bq
                    /\ db'.hasH = db.hasH /\ db'.h = db.h
                    /\ verr' # "anchor" => db' = db]_vars
    /\ [][(bq' # bq \/ db'.h # db.h \/ db'.hasH # db.hasH)
            => /\ ipc = "validate" /\ vpc = "blocks"
               /\ vpc' = "returned" /\ verr' = "nil"]_vars

\* a pass has succeeded on a stored anchor and has persisted a Last()
\* beyond it, with another hash
C15_Witness ==
    /\ ipc = "validate"
    /\ vpc = "returned"
    /\ verr = "nil"
    /\ bq # Nil
    /\ db.n > lvbn
    /\ db.h = Hash(Header(db.n, "main"))
    /\ <<db.n, db.h>> = Last(bq)

\* C16 as stated: a successful pass that started from the anchor number
\* lvbn installs a window whose Last() is numbered lvbn at least, and the
\* block number a successful pass persists is never below the one the
\* successful pass before it persisted.
C16_PersistedNumberNeverDecreases ==
    [][(ipc = "validate" /\ vpc = "blocks" /\ vpc' = "returned"
            /\ verr' = "nil")
        => /\ Last(bq')[1] >= lvbn
           /\ db'.n >= persisted]_vars

\* C16: a successful pass that started from the anchor number lvbn installs
\* a window whose Last() is numbered lvbn at least and persists that
\* number.  It is below the number persisted before only in the second pass
\* of initialize, run from the built-in anchor after the first pass has
\* deleted the stored one.
C16_LastNotBelowAnchor ==
    [][(ipc = "validate" /\ vpc = "blocks" /\ vpc' = "returned"
            /\ verr' = "nil")
        => /\ Last(bq')[1] >= lvbn
           /\ db'.n = Last(bq')[1]
           /\ persisted' = db'.n
           /\ db'.n < persisted
                => /\ pass = 2
                   /\ ~db.hasN
                   /\ lvbn = DefaultAnchor[1]
                   /\ persisted > lvbn]_vars

\* a pass from a stored anchor has succeeded and has persisted a Last()
\* beyond the number persisted before it
C16_Witness ==
    /\ ipc = "validate"
    /\ vpc = "returned"
    /\ verr = "nil"
    /\ pass = 1
    /\ lvbn > DefaultAnchor[1]
    /\ db.n > lvbn
    /\ persisted = db.n
    /\ Last(bq)[1] = db.n

\* -------------------------------------------------- claims, initialize
\* C17 as stated: hello is sent only after network validation has
\* succeeded, no ticket is submitted before hello was sent, onConnect fires
\* only after the ticket submission of the greeting returned without error,
\* and never once initialize has failed.
C17_HelloTicketOnConnectInOrder ==
    /\ []((ipc \in {"serverid", "greet", "ticket", "connected"})
            => (verr = "nil" /\ bq # Nil))
    /\ [](lastSent.built => ipc \notin {"validate", "serverid", "greet"})
    /\ [][(ipc' = "connected" /\ ipc # "connected")
            => (ipc = "ticket" /\ towner = "greet" /\ terr' = "nil")]_vars
    /\ [][ipc = "failed" => ipc' = "failed"]_vars

\* C17: hello is sent only after network validation has succeeded, the
\* ticket of the greeting is submitted only after hello was sent, onConnect
\* fires only after that ticket submission returned without error, and
\* never once initialize has failed.  (A ticket of a CheckTicket can be
\* submitted before hello.)
C17_GreetingInOrder ==
    /\ []((ipc \in {"serverid", "greet", "ticket", "connected"})
            => (verr = "nil" /\ bq # Nil))
    /\ [](towner = "greet" => ipc = "ticket")
    /\ [][(towner' = "greet" /\ towner # "greet") => ipc = "greet"]_vars
    /\ [][(ipc' = "connected" /\ ipc # "connected")
            => (ipc = "ticket" /\ towner = "greet" /\ terr' = "nil")]_vars
    /\ [][ipc = "failed" => ipc' = "failed"]_vars

\* initialize has connected: validation succeeded and the ticket of the
\* greeting, sent after hello, returned without error
C17_Witness ==
    /\ ipc = "connected"
    /\ verr = "nil"
    /\ bq # Nil
    /\ lastSent.built
    /\ terr = "nil"
    /\ towner = "none"

\* --------------------------------------------------- claims, doConnect
\* the dials made so far have all failed
AllFailed == \A k \in DOMAIN dials : ~dials[k]

\* C18: doConnect makes at most 1 + RetryTimes dial attempts and none after
\* the first successful one; it returns the failed-to-connect error exactly
\* when all 1 + RetryTimes attempts have failed; with RetryTimes = 0 a
\* failed first dial is reported as failure without a retry.
C18_DialAttemptsBounded ==
    /\ Len(dials) <= 1 + RetryTimes
    /\ \A k \in DOMAIN dials : dials[k] => k = Len(dials)
    /\ cpc = "done"
        => (connErr = "failed to connect"
                <=> (Len(dials) = 1 + RetryTimes /\ AllFailed))
    /\ (cpc = "done" /\ RetryTimes = 0 /\ ~dials[1])
        => (Len(dials) = 1 /\ connErr = "failed to connect")

\* doConnect has returned the failed-to-connect error after the first dial
\* and two retries, all failed
C18_Witness ==
    /\ cpc = "done"
    /\ RetryTimes = 2
    /\ Len(dials) = 3
    /\ AllFailed
    /\ connErr = "failed to connect"

\* -------------------------------------------- claims, verified reads
\* C19 as stated: when both calls succeed and the tree holds the key,
\* GetAccountValueRaw returns the leaf exactly when the root at index
\* modulo of the account roots equals the proof's computed root, and the
\* wrong-merkle-proof error otherwise, whatever the list of roots.
C19_LeafExactlyWhenRootAtModulo ==
    (/\ req.kind = "GetAccountValueRaw"
     /\ ret # NoReturn
     /\ req.answer.acvErr = "nil"
     /\ req.answer.acrErr = "nil"
     /\ req.answer.hasKey)
        => LET a == req.answer
               verifies == /\ a.modulo + 1 \in DOMAIN a.roots
                           /\ a.roots[a.modulo + 1] = a.root
           IN  IF verifies
               THEN ret = [raw |-> a.leaf, err |-> "nil"]
               ELSE ret = [raw |-> NullData, err |-> "wrong merkle proof"]

\* the proof check of the answer a fails
BadProof(a) == GetAccountValueRaw(a).err = "wrong merkle proof"

\* C20 as stated: when a verified read made by ResolveBNS (the array
\* length, the single entry, an array element) fails its proof check,
\* ResolveBNS returns an error and no address.
C20_BadProofFatalToResolveBNS ==
    (req.kind = "ResolveBNS" /\ ret # NoReturn)
        => LET size == Int64(GetAccountValueInt(req.size))
               n == IF size > maxBNSEntries THEN 0 ELSE size
               readFailed ==
                   \/ BadProof(req.size)
                   \/ n = 0 /\ BadProof(req.entry)
                   \/ \E k \in 1..n : BadProof(req.elems[k])
           IN  readFailed => (ret.err # "nil" /\ ret.addr = <<>>)

\* the verified read answered with a succeeds
Verified(a) == GetAccountValueRaw(a).err = "nil"

\* C21: for a name whose destination array has length n, 1 <= n <= 128,
\* and whose element reads all succeed, ResolveBNS returns without error
\* exactly n addresses, the k-th being the last 20 bytes of the slot of the
\* k-th element, in the order of the array.
C21_ArrayResolvedInOrder ==
    (/\ req.kind = "ResolveBNS"
     /\ ret # NoReturn
     /\ Verified(req.size)
     /\ req.size.leaf \in 1..maxBNSEntries
     /\ \A k \in 1..req.size.leaf : Verified(req.elems[k]))
        => /\ ret.err = "nil"
           /\ Len(ret.addr) = req.size.leaf
           /\ \A k \in 1..req.size.leaf :
                ret.addr[k] = req.elems[k].leaf % addrSpace

\* an array of two elements is resolved: two different addresses, the
\* first taken from a slot with bytes before the address
C21_Witness ==
    /\ req.kind = "ResolveBNS"
    /\ Verified(req.size)
    /\ req.size.leaf = 2
    /\ req.elems[1].leaf = addrSpace + 3
    /\ ret = [addr |-> <<3, 0>>, err |-> "nil"]

\* C25 as stated: when the array length read exceeds 128, ResolveBNS reads
\* no element and resolves the name as it does for length 0: the result
\* is that of the single entry alone, its address, EmptyBNSResult when it
\* is zero, or the error of its read.
C25_LengthAbove128AsLengthZero ==
    (/\ req.kind = "ResolveBNS"
     /\ ret # NoReturn
     /\ Verified(req.size)
     /\ req.size.leaf > maxBNSEntries)
        => ret = ResolveBNS([req EXCEPT !.size = GoodAnswer(0)])

\* C30 as stated: IsDeviceAllowlisted returns true only for the default
\* fleet, without a read, or when the read of the allowlist key verifies
\* and the value read equals 1; when the read fails it returns false.
C30_AllowlistFailsClosed ==
    (req.kind = "IsDeviceAllowlisted" /\ ret # NoReturn /\ ret.allowed)
        => \/ req.fleet = "DefaultFleetAddr" /\ ret.reads = 0
           \/ Verified(req.answer) /\ req.answer.leaf = 1

\* ----------------------------------------- claims, calls and start-up
\* C23 as stated: no two calls held in the call manager have the same id,
\* whatever the interleaving of the callers of CastContext and
\* RespondContext.
C23_CallIdsUnique ==
    \A a, b \in cm : a.id = b.id => a = b

\* --------------------------------------------- claims, DialContext
\* C22: when the server answers portopen with the 4-byte error "time",
\* PortOpen returns errPortOpenTimeout and the dial fails: the connection
\* loop ends with that error without a connection, DialContext returns a
\* non-nil error, and when the goroutine is done both ends of the pipe
\* are closed.
C22_PortOpenTimeoutFailsDial ==
    portAnswer = "time"
        => /\ loopErr = "portopen timeout"
           /\ loopPc \in {"returned", "close", "close2", "done"}
           /\ callbacks = 0
           /\ dialPc = "returned" => dialErr = "portopen timeout"
           /\ loopPc = "done" => (connHTTP = "closed" /\ connDiode = "closed")

\* the dial has failed with the timeout and the pipe is closed
C22_Witness ==
    /\ portAnswer = "time"
    /\ dialPc = "returned"
    /\ dialErr = "portopen timeout"
    /\ loopPc = "done"
    /\ connHTTP = "closed"
    /\ connDiode = "closed"

\* the goroutine waits to send on the full result channel after
\* DialContext has returned: nobody receives any more
GoroutineBlocked ==
    /\ dialPc = "returned"
    /\ Len(retChan) = retChanSize
    /\ \/ loopPc = "send"
       \/ loopPc = "returned" /\ loopErr # "nil"

\* DialContext waits on the result channel after the goroutine is done
DialBlocked ==
    /\ dialPc = "wait"
    /\ loopPc = "done"
    /\ retChan = <<>>

\* C29 as stated: DialContext returns for every outcome of
\* connectDeviceAndLoop, with a nil error exactly when the callback was
\* invoked, and its goroutine never blocks for ever on the result channel:
\* neither of them is ever left waiting on the channel with nobody to
\* serve it.
C29_DialContextNeverBlocks ==
    /\ ~GoroutineBlocked
    /\ ~DialBlocked
    /\ (dialPc = "returned" /\ connHTTP # "none")
            => (dialErr = "nil" <=> callbacks >= 1)

\* ------------------------------------------- claims, waitResponse
\* waitResponse returns for call k in this step, with result r
Returns(k, r) ==
    /\ pcalls[k].at # "done"
    /\ pcalls'[k].at = "done"
    /\ pcalls'[k].ret = r

AllFetched == \A j \in DOMAIN fetches : fetches[j].at = "ok"

\* C26: GetBlockHeadersUnsafe2 is all-or-nothing. It returns only when
\* every fetch has come back; if all of them succeeded it returns, without
\* error, one header per requested number, the i-th being a header that was
\* fetched for blockNumbers[i] (the one the i-th fetch returned when the
\* number was asked for once), whatever the order of completion; if any
\* fetch failed it returns an error and no headers.
C26_HeadersAllOrNothing ==
    fetchRet # NotFetched
        => /\ \A j \in DOMAIN fetches : fetches[j].at # "run"
           /\ IF AllFetched
              THEN /\ fetchRet.err = "nil"
                   /\ Len(fetchRet.headers) = Len(blockNumbers)
                   /\ \A j \in DOMAIN blockNumbers :
                         /\ fetchRet.headers[j].number = blockNumbers[j]
                         /\ \E x \in DOMAIN blockNumbers :
                               /\ blockNumbers[x] = blockNumbers[j]
                               /\ fetches[x].header = fetchRet.headers[j]
                         /\ (\A x \in DOMAIN blockNumbers :
                                 blockNumbers[x] = blockNumbers[j] => x = j)
                               => fetchRet.headers[j] = fetches[j].header
              ELSE /\ fetchRet.err # "nil"
                   /\ fetchRet.headers = <<>>

\* headers were asked for out of order and all were fetched
C26_Witness ==
    /\ fetchRet.err = "nil"
    /\ Len(blockNumbers) = MaxFetch
    /\ blockNumbers[1] > blockNumbers[2]
    /\ fetchRet.headers[1].variant # fetchRet.headers[2].variant

\* ----------------------------------------------------- claims, Start
\* start-up has failed: the connect task, or initialize()
StartFailed ==
    \/ connectPc = "failed"
    \/ initPc \in {"failed", "close", "exit"}

\* the initialization goroutine waits for the actor to serve a call of
\* its own, and the actor was shut down
InitBlocked ==
    /\ srvShutdown
    /\ \/ initPc \in RPCStages \cup {"close"}
       \/ initPc \in WaitStages /\ isClosed

\* C27 as stated: a started client never stays open after a failed
\* start-up: once start-up has failed and neither the actor nor a
\* goroutine can take a step any more, the client is closed and its ports
\* are released.
C27_FailedStartUpEndsClosed ==
    (StartFailed /\ ~ENABLED NextStart) => (isClosed /\ pool = {})

\* C28 as stated: no call is inserted into the call manager before the
\* secure channel exists and the send hook is installed, and when the
\* connect task has failed and shut the actor down the initialization
\* goroutine is not left waiting on the actor.
C28_ConnectFirstAndInitTerminates ==
    /\ ~insertedEarly
    /\ connectPc = "failed" => ~InitBlocked

====
